---------------------------- MODULE Spec2Model ----------------------------
(***************************************************************************)
(* Model of the real-time interview response pipeline of interview_mate:   *)
(*   - LLMService.generate_answer_stream and the two generation backends   *)
(*     (app/services/llm_service.py, glm_service.py, claude.py),           *)
(*   - the per-connection session coordinator websocket_transcribe         *)
(*     (app/api/websocket.py),                                             *)
(*   - the ffmpeg transcoder bridge DeepgramStreamingService               *)
(*     (app/services/deepgram_service.py).                                 *)
(* Three specifications share the module: SpecLLM, SpecSession and         *)
(* SpecBridge.  Each one drives its own group of variables and pins the    *)
(* other groups.                                                           *)
(***************************************************************************)
EXTENDS Integers, Sequences, FiniteSets, TLC

VARIABLES
    \* ---- generation services (llm_service.py, claude.py) ----
    strategy,        \* settings.LLM_SERVICE
    qdrant,          \* claude_service.qdrant_service is not None
    answer_cache,    \* claude_service._answer_cache: normalized question -> answer
    gen,             \* the async generator LLMService.generate_answer_stream under test
    consumed,        \* chunks the caller of the generator has received
    requests,        \* number of generation requests issued so far
    \* ---- one websocket session (websocket.py, websocket_transcribe) ----
    accumulated_text,       \* the last final transcript
    is_processing,          \* a detection/answering cycle of on_transcript runs
    user_id,                \* "" for None
    user_profile,           \* TRUE when an interview profile row is loaded
    session_id,             \* 0 for None
    user_context,           \* [qa_pairs, bad]: prepared Q&A; star_stories malformed
    qa_index,               \* claude_service._qa_index
    session_examples_used,  \* the session's local list of examples used
    store,                  \* interview_sessions / session_messages rows, per session id
    socket,                 \* the messages sent to the client, per sender, in order
    wire_order,             \* the senders of the latest answer messages on the wire
    tasks,                  \* the on_transcript tasks the Deepgram handler created
    main,                   \* the receive loop of websocket_transcribe
    counters,               \* events so far, and the tags handed out
    \* ---- the transcoder bridge (deepgram_service.py, the singleton) ----
    ffmpeg_process,         \* self.ffmpeg_process: a process id, 0 for None
    converter_thread,       \* self.converter_thread: a thread id, 0 for None
    stop_converter,         \* self.stop_converter
    is_connected,           \* self.is_connected
    connection,             \* self.connection: a connection id, 0 for None
    procs,                  \* the decoder processes ever started, by process id
    workers,                \* the converter threads ever started, by thread id
    conns,                  \* the Deepgram connections ever passed in, by id: open?
    orphans,                \* send coroutines whose waiter timed out, still scheduled
    loop,                   \* what the event-loop thread is doing inside the service
    delivered,              \* frames send_media handed to Deepgram, in order
    read_log,               \* frames read from decoder output: who read what from whom
    fed,                    \* audio chunks written so far, frames decoded so far
    \* ---- two sessions on the module singletons ----
    callbacks,              \* deepgram_service._on_transcript/_on_error: whose they are
    handlers,               \* per connection id: whose callbacks connection.on bound
    endpoints,              \* per websocket_transcribe call: its locals and its socket
    \* ---- one call of a pure function ----
    probe                   \* the function, its arguments and, once applied, its result

llmVars == <<strategy, qdrant, answer_cache, gen, consumed, requests>>
sessVars ==
    <<accumulated_text, is_processing, user_id, user_profile, session_id, user_context,
      qa_index, session_examples_used, store, socket, wire_order, tasks, main,
      counters>>
bridgeVars ==
    <<ffmpeg_process, converter_thread, stop_converter, is_connected, connection, procs,
      workers, conns, orphans, loop, delivered, read_log, fed>>
peerVars == <<callbacks, handlers, endpoints>>
vars == <<llmVars, sessVars, bridgeVars, peerVars, probe>>

-----------------------------------------------------------------------------
(* Bounds of the model.                                                    *)
MaxChunks == 1        \* chunks one backend stream yields at most
MaxRequests == 2      \* generation requests in one behaviour of SpecLLM
MaxEvents == 2        \* transcripts and control messages of one session
MaxCalls == 2         \* setup_connection / disconnect / finish calls on the bridge
MaxAudio == 2         \* audio chunks fed to the bridge
MaxFeed == 5          \* audio chunks of a longer recording

-----------------------------------------------------------------------------
(* Texts.  A raw text is a record [words, cap, end]: its lower-cased words, *)
(* whether it was capitalised, and its closing punctuation.                 *)
Txt(w, c, e) == [words |-> w, cap |-> c, end |-> e]

QAboutYou == Txt(<<"tell", "me", "about", "yourself">>, TRUE, "?")
QAboutYouPlain == Txt(<<"tell", "me", "about", "yourself">>, TRUE, "")
QAboutYouLongPlain == Txt(<<"can", "you", "tell", "me", "about", "yourself">>, TRUE, "")
QAboutYouLong == Txt(<<"can", "you", "tell", "me", "about", "yourself">>, TRUE, "?")
QDeadline ==
    Txt(<<"what", "would", "you", "do", "if", "a", "teammate", "missed", "a", "deadline">>,
        TRUE, "?")

Questions == {QAboutYou, QAboutYouLong, QDeadline}

\* normalize_question: lower-case, strip punctuation, collapse whitespace.
normalize_question(t) == t.words

(* Answer texts the generation API can produce, and the stored answer of    *)
(* the prepared item.  ExamplesIn gives, per text, what the extraction      *)
(* regex (?:Project|at|working on|led|built)\s+([A-Z][A-Za-z0-9\s]{2,30})   *)
(* finds in it, stripped.                                                   *)
PlainText == "- I focus on clear communication."
AcmeText == "- I built Acme Platform."
StoredAnswer == "I am a backend engineer at Acme Corp."
LLMErrorText == "\n\n(warning) Error generating answer. Please try again."
ClaudeErrorText == "Error generating answer. Please try again."

ApiTexts == {PlainText, AcmeText}

ExamplesIn(text) ==
    CASE text = AcmeText -> <<"Acme Platform">>
      [] text = StoredAnswer -> <<"Acme Corp">>
      [] OTHER -> <<>>

RECURSIVE ExamplesOf(_)
\* re.findall over the concatenation of the chunks, in order of occurrence.
ExamplesOf(texts) ==
    IF texts = <<>> THEN <<>>
    ELSE ExamplesIn(Head(texts)) \o ExamplesOf(Tail(texts))

SeqToSet(s) == {s[i] : i \in DOMAIN s}

RECURSIVE NewExamples(_, _)
\* for match in example_patterns: keep it when len > 3 and not in `used`.
NewExamples(found, used) ==
    IF found = <<>> THEN <<>>
    ELSE IF Head(found) \in SeqToSet(used)
         THEN NewExamples(Tail(found), used)
         ELSE <<Head(found)>> \o NewExamples(Tail(found), used)

-----------------------------------------------------------------------------
(* Chunks.  A generator yields Python values: a str, or (when the fallback  *)
(* path yields the return value of ClaudeService.generate_answer) a tuple.  *)
StrChunk(t) == [kind |-> "str", text |-> t, examples |-> <<>>]
TupleChunk(t, ex) == [kind |-> "tuple", text |-> t, examples |-> ex]
NoChunk == [kind |-> "none", text |-> "", examples |-> <<>>]
ErrorChunk == StrChunk(LLMErrorText)

IsErrorChunk(c) == c.text \in {LLMErrorText, ClaudeErrorText}

-----------------------------------------------------------------------------
(* Semantic search.  find_relevant_qa_pairs returns the fused candidates,   *)
(* best first; the vector store is an external collaborator, so its answer  *)
(* is chosen by the environment.  Similarities are in hundredths.           *)
DirectRetrievalPct == 62

Candidate(sim) == [id |-> "qa1", similarity |-> sim, answer |-> StoredAnswer]

FindRelevantResults == {<<>>, <<Candidate(61)>>, <<Candidate(62)>>}

IsDirectMatch(rel) == rel # <<>> /\ rel[1].similarity >= DirectRetrievalPct

-----------------------------------------------------------------------------
(* LLMService.__init__: the services the strategy selects.                 *)
Strategies == {"claude", "glm", "hybrid"}

PrimaryService(s) == IF s \in {"glm", "hybrid"} THEN "glm" ELSE "claude"
FallbackService(s) == IF s = "hybrid" THEN "claude" ELSE "none"

\* Parameters of <service>.generate_answer_stream (self left out).
StreamParams(svc) ==
    IF svc = "glm"
    THEN {"question", "resume_text", "star_stories", "talking_points", "format"}
    ELSE {"question", "resume_text", "star_stories", "talking_points", "qa_pairs",
          "format", "user_profile", "session_history", "examples_used"}

\* kwargs LLMService builds for the primary call.
PrimaryKwargs(svc) ==
    {"question", "resume_text", "star_stories", "talking_points", "qa_pairs",
     "format", "user_profile"}
    \cup ({"session_history", "examples_used"} \cap StreamParams(svc))

\* Parameters of LLMService.generate_answer_stream: the request.
RequestParams ==
    {"question", "resume_text", "star_stories", "talking_points", "qa_pairs",
     "format", "user_profile", "session_history", "examples_used"}

\* What LLMService passes to fallback_service.generate_answer.
FallbackArgs ==
    {"question", "resume_text", "star_stories", "talking_points", "qa_pairs",
     "user_profile"}

\* Calling a function with a keyword it does not declare raises TypeError.
CallRaisesTypeError(svc) == ~(PrimaryKwargs(svc) \subseteq StreamParams(svc))

-----------------------------------------------------------------------------
(* A generation request, as the session hands it to LLMService.            *)
Request(q, profile, bad, used) ==
    [question |-> q,          \* the question text
     profile |-> profile,     \* user_profile is set (it carries user_id)
     bad_context |-> bad,     \* star_stories holds an entry that is no dict
     examples_used |-> used]  \* the do-not-repeat list

GenIdle ==
    [pc |-> "idle", req |-> Request(QAboutYou, FALSE, FALSE, <<>>), n |-> 0,
     prim_raised |-> FALSE, sec_calls |-> 0, sec_failed |-> FALSE,
     sec_out |-> NoChunk, retrieved |-> FALSE, sec_args |-> {}]

GenStart(req) == [GenIdle EXCEPT !.pc = "start", !.req = req]

-----------------------------------------------------------------------------
(* calculate_similarity on normalized questions, in hundredths (floor).     *)
IsInfix(a, b) ==
    \E i \in 0..(Len(b) - Len(a)) : SubSeq(b, i + 1, i + Len(a)) = a

KeyAboutYou == <<"tell", "me", "about", "yourself">>
KeyAboutYouLong == <<"can", "you", "tell", "me", "about", "yourself">>
KeyDeadline ==
    <<"what", "would", "you", "do", "if", "a", "teammate", "missed", "a", "deadline">>

\* SequenceMatcher(None, str1, str2).ratio() as difflib computes it on the
\* joined strings of the keys of this model (it is not symmetric).
SequenceRatioPct(a, b) ==
    CASE a = b -> 100
      [] a = KeyAboutYou /\ b = KeyAboutYouLong -> 84
      [] a = KeyAboutYouLong /\ b = KeyAboutYou -> 84
      [] a = KeyAboutYou /\ b = KeyDeadline -> 30
      [] a = KeyDeadline /\ b = KeyAboutYou -> 28
      [] a = KeyAboutYouLong /\ b = KeyDeadline -> 40
      [] a = KeyDeadline /\ b = KeyAboutYouLong -> 32
      [] OTHER -> 0

Max2(x, y) == IF x >= y THEN x ELSE y

TokenSimilarityPct(a, b) ==
    LET t1 == SeqToSet(a)
        t2 == SeqToSet(b)
        \* min(tokens1, tokens2, key=len) and max(...) both return their first
        \* argument when the sizes are equal.
        smaller == IF Cardinality(t2) < Cardinality(t1) THEN t2 ELSE t1
        larger == IF Cardinality(t2) > Cardinality(t1) THEN t2 ELSE t1
        jaccard == (100 * Cardinality(t1 \cap t2)) \div Cardinality(t1 \cup t2)
        containment == (100 * Cardinality(smaller \cap larger)) \div Cardinality(smaller)
    IN  IF t1 # {} /\ t2 # {} THEN Max2(jaccard, containment) ELSE 0

calculate_similarity(a, b) ==
    IF IsInfix(a, b) \/ IsInfix(b, a) THEN 95
    ELSE Max2(TokenSimilarityPct(a, b), SequenceRatioPct(a, b))

-----------------------------------------------------------------------------
(* ClaudeService answer cache: a dict in insertion order, modelled as a     *)
(* sequence of [key, answer].                                               *)
CacheSimilarityPct == 85
MaxCacheSize == 50

CacheKeys(cache) == {cache[i].key : i \in DOMAIN cache}

\* _get_cached_answer: the exact key first, else the first similar key; ""
\* stands for None.
GetCached(cache, q) ==
    LET k == normalize_question(q)
        exact == {i \in DOMAIN cache : cache[i].key = k}
        similar == {i \in DOMAIN cache :
                       calculate_similarity(k, cache[i].key) >= CacheSimilarityPct}
    IN  IF exact # {} THEN cache[CHOOSE i \in exact : TRUE].answer
        ELSE IF similar # {}
             THEN cache[CHOOSE i \in similar : \A j \in similar : i <= j].answer
             ELSE ""

\* _cache_answer: evict the oldest entry when full, then store under the key.
CacheAnswer(cache, q, a) ==
    LET k == normalize_question(q)
        kept == IF Len(cache) >= MaxCacheSize THEN Tail(cache) ELSE cache
        at == {i \in DOMAIN kept : kept[i].key = k}
    IN  IF at # {}
        THEN [kept EXCEPT ![CHOOSE i \in at : TRUE] = [key |-> k, answer |-> a]]
        ELSE Append(kept, [key |-> k, answer |-> a])

-----------------------------------------------------------------------------
(* The async generator LLMService.generate_answer_stream, one step at a     *)
(* time.  A step gives the generator's next state, the chunk it yields (or  *)
(* NoChunk), and the answer cache afterwards.                               *)
Outcome(g, y, cache) == [g |-> g, yield |-> y, cache |-> cache]

\* A handler that tells the user about the primary's failure before falling back.
OnPrimaryErrorNoisy(g, s, cache) ==
    IF FallbackService(s) # "none"
    THEN Outcome([g EXCEPT !.pc = "fallback", !.prim_raised = TRUE,
                           !.sec_calls = @ + 1], ErrorChunk, cache)
    ELSE Outcome([g EXCEPT !.pc = "done", !.prim_raised = TRUE], ErrorChunk, cache)

\* A handler that never consults the fallback service.
OnPrimaryErrorNoFallback(g, s, cache) ==
    Outcome([g EXCEPT !.pc = "done", !.prim_raised = TRUE], ErrorChunk, cache)

\* except Exception (llm_service.py 109-127): the primary raised.
OnPrimaryError(g, s, cache) ==
    IF FallbackService(s) # "none"
    THEN Outcome([g EXCEPT !.pc = "fallback", !.prim_raised = TRUE,
                           !.sec_calls = @ + 1, !.sec_args = FallbackArgs],
                 NoChunk, cache)
    ELSE Outcome([g EXCEPT !.pc = "done", !.prim_raised = TRUE], ErrorChunk, cache)

\* llm_service.py 73-100: build kwargs and call the primary service.
StepCallPrimary(g, s, cache) ==
    IF g.pc # "start" THEN {}
    ELSE IF CallRaisesTypeError(PrimaryService(s))
         THEN {OnPrimaryError(g, s, cache)}
         ELSE {Outcome([g EXCEPT !.pc = "primary_body"], NoChunk, cache)}

\* claude.py 594-688: semantic search, direct retrieval, prompt building.
StepClaudeStreamBody(g, s, q, cache) ==
    IF g.pc # "primary_body" THEN {}
    ELSE LET rels == IF g.req.profile /\ q THEN FindRelevantResults ELSE {<<>>}
         IN  { IF IsDirectMatch(rel)
               THEN Outcome([g EXCEPT !.pc = "done", !.retrieved = TRUE],
                            StrChunk(rel[1].answer), cache)
               ELSE IF g.req.bad_context
                    THEN OnPrimaryError(g, s, cache)
                    ELSE Outcome([g EXCEPT !.pc = "api_stream"], NoChunk, cache)
               : rel \in rels }

\* claude.py 721-742: the streaming API call.
StepClaudeStreamChunk(g, texts, cache) ==
    IF g.pc # "api_stream" \/ g.n >= MaxChunks THEN {}
    ELSE {Outcome([g EXCEPT !.n = @ + 1], StrChunk(t), cache) : t \in texts}

\* A completion that succeeds carries text: the stream ends after a chunk.
StepClaudeStreamEnd(g, cache) ==
    IF g.pc # "api_stream" \/ g.n = 0 THEN {}
    ELSE {Outcome([g EXCEPT !.pc = "done"], NoChunk, cache)}

StepClaudeStreamError(g, cache) ==
    IF g.pc # "api_stream" THEN {}
    ELSE {Outcome([g EXCEPT !.pc = "done"], ErrorChunk, cache)}

\* llm_service.py 113-124 with claude.py 918-1126: the fallback call
\* fallback_service.generate_answer(...) and the yield of what it returns.
FallbackReturn(g, value, failed, cache) ==
    Outcome([g EXCEPT !.pc = "done", !.sec_out = value, !.sec_failed = failed],
            value, cache)

StepFallback(g, q, texts, cache) ==
    IF g.pc # "fallback" THEN {}
    ELSE LET rels == IF g.req.profile /\ q THEN FindRelevantResults ELSE {<<>>}
             cached == GetCached(cache, g.req.question)
             \* session_history and examples_used are not passed to the fallback
             fresh(t) == TupleChunk(t, NewExamples(ExamplesIn(t), <<>>))
         IN  UNION {
               IF IsDirectMatch(rel)
               THEN {FallbackReturn([g EXCEPT !.retrieved = TRUE],
                                    TupleChunk(rel[1].answer, <<>>), FALSE, cache)}
               ELSE IF rel = <<>> /\ cached # ""
                    THEN {FallbackReturn(g, TupleChunk(cached, <<>>), FALSE, cache)}
                    ELSE IF g.req.bad_context
                         THEN {Outcome([g EXCEPT !.pc = "done", !.sec_failed = TRUE],
                                       ErrorChunk, cache)}
                         ELSE {FallbackReturn(g, fresh(t), FALSE,
                                              CacheAnswer(cache, g.req.question, t))
                                 : t \in texts}
                              \cup {FallbackReturn(g, TupleChunk(ClaudeErrorText, <<>>),
                                                   TRUE, cache)}
               : rel \in rels }

\* texts: what the generation API may answer with.
GenSteps(g, s, q, texts, cache) ==
    StepCallPrimary(g, s, cache) \cup StepClaudeStreamBody(g, s, q, cache)
    \cup StepClaudeStreamChunk(g, texts, cache) \cup StepClaudeStreamEnd(g, cache)
    \cup StepClaudeStreamError(g, cache) \cup StepFallback(g, q, texts, cache)

-----------------------------------------------------------------------------
(* Question detection on transcript text (websocket.py 183-260, claude.py   *)
(* 74-194).  Matching is done on words; the vocabulary of the model has no  *)
(* word that extends another one, so searching words equals searching       *)
(* characters.                                                              *)
NoText == Txt(<<>>, FALSE, "")

WordLen(w) ==
    CASE w \in {"a"} -> 1
      [] w \in {"me", "do", "if", "ok"} -> 2
      [] w \in {"can", "you"} -> 3
      [] w \in {"tell", "what", "good"} -> 4
      [] w \in {"about", "would"} -> 5
      [] w \in {"missed", "sounds"} -> 6
      [] OTHER -> 8

RECURSIVE SumLen(_)
SumLen(ws) == IF ws = <<>> THEN 0 ELSE WordLen(Head(ws)) + SumLen(Tail(ws))

\* len(text): the words, single spaces between them, the closing punctuation.
CharLen(t) ==
    IF t.words = <<>> THEN 0
    ELSE SumLen(t.words) + (Len(t.words) - 1) + (IF t.end = "" THEN 0 ELSE 1)

IsPrefix(a, b) == Len(a) <= Len(b) /\ SubSeq(b, 1, Len(a)) = a

\* f" {q} " in f" {text_lower} ": q as whole words; the last word of the text
\* carries the closing punctuation, so q cannot end on it when there is one.
ContainsWords(t, q) ==
    LET body == IF t.end = "" THEN t.words ELSE SubSeq(t.words, 1, Len(t.words) - 1)
    IN  IsInfix(q, body)

LikelyQuestionWords ==
    {<<"what">>, <<"how">>, <<"why">>, <<"when">>, <<"where">>, <<"who">>, <<"which">>,
     <<"whose">>, <<"can", "you">>, <<"could", "you">>, <<"would", "you">>,
     <<"will", "you">>, <<"should", "you">>, <<"do", "you">>, <<"did", "you">>,
     <<"does">>, <<"have", "you">>, <<"has">>, <<"describe">>, <<"tell", "me">>,
     <<"explain">>, <<"share">>, <<"talk", "about">>, <<"give", "me">>,
     <<"walk", "me", "through">>, <<"think", "of">>}

MinQuestionChars == 5
LongTextWords == 8

is_likely_question(t) ==
    IF CharLen(t) < MinQuestionChars THEN FALSE
    ELSE IF t.end = "?" THEN TRUE
    ELSE IF \E q \in LikelyQuestionWords : IsPrefix(q, t.words) THEN TRUE
    ELSE IF \E q \in LikelyQuestionWords : ContainsWords(t, q) THEN TRUE
    ELSE IF Len(t.words) < LongTextWords THEN FALSE
    ELSE TRUE

FastQuestionWords ==
    {<<"what">>, <<"how">>, <<"why">>, <<"when">>, <<"where">>, <<"who">>, <<"which">>,
     <<"can", "you">>, <<"could", "you">>, <<"would", "you">>, <<"will", "you">>,
     <<"do", "you">>, <<"did", "you">>, <<"have", "you">>, <<"tell", "me">>,
     <<"describe">>}

(* QUESTION_PATTERNS.  A pattern is a sequence of alternatives, each a set  *)
(* of word sequences; it matches where one choice per position, joined, is  *)
(* found in the text (at its start for the patterns anchored with ^).       *)
W(w) == {<<w>>}
MeUs == {<<"me">>, <<"us">>}
AAn == {<<"a">>, <<"an">>}
WhatIs == {<<"whats">>, <<"what's">>, <<"what", "is">>}

Pat(alts, anchored) == [alts |-> alts, anchored |-> anchored]

BehavioralPatterns ==
    << Pat(<<W("tell"), MeUs, W("about"), {<<"yourself">>, <<"a", "time">>}>>, FALSE),
       Pat(<<W("describe"), {<<"a", "time">>, <<"a", "situation">>, <<"an", "situation">>,
                             <<"a", "experience">>, <<"an", "experience">>}>>, FALSE),
       Pat(<<W("give"), MeUs, AAn, W("example")>>, FALSE),
       Pat(<<W("walk"), MeUs, W("through")>>, FALSE),
       Pat(<<W("share"), {<<"a", "story">>, <<"a", "experience">>,
                          <<"an", "experience">>}>>, FALSE),
       Pat(<<WhatIs, W("your"), {<<"biggest">>, <<"greatest">>},
             {<<"strength">>, <<"weakness">>, <<"achievement">>}>>, FALSE),
       Pat(<<W("how"), W("do"), W("you"),
             {<<"handle">>, <<"deal", "with">>, <<"approach">>}>>, FALSE),
       Pat(<<W("have"), W("you"), W("ever")>>, FALSE),
       Pat(<<W("can"), W("you"), W("tell")>>, FALSE) >>

TechnicalPatterns ==
    << Pat(<<W("how"), {<<"would">>, <<"do">>}, W("you"),
             {<<"design">>, <<"build">>, <<"implement">>, <<"architect">>}>>, FALSE),
       Pat(<<WhatIs, W("the"), {<<"difference">>, <<"time", "complexity">>}>>, FALSE),
       Pat(<<W("explain"), {<<"how">>, <<"what">>, <<"why">>}>>, FALSE),
       Pat(<<W("what"), {<<>>, <<"are", "the">>},
             {<<"trade-offs">>, <<"trade", "offs">>, <<"tradeoffs">>, <<"benefits">>}>>,
           FALSE),
       Pat(<<W("how"), {<<"does">>, <<"would">>}, {<<"this">>, <<"that">>},
             {<<"work">>, <<"scale">>}>>, FALSE),
       Pat(<<W("what"), W("technologies")>>, FALSE),
       Pat(<<W("which"), {<<"algorithm">>, <<"approach">>, <<"pattern">>}>>, FALSE) >>

SituationalPatterns ==
    << Pat(<<W("what"), W("would"), W("you"), W("do"), {<<"if">>, <<"when">>}>>, FALSE),
       Pat(<<W("how"), W("would"), W("you"),
             {<<"handle">>, <<"approach">>, <<"solve">>}>>, FALSE),
       Pat(<<W("imagine"), {<<"you">>, <<"that">>}>>, FALSE),
       Pat(<<W("suppose"), {<<"you">>, <<"that">>}>>, FALSE),
       Pat(<<W("if"), W("you"), {<<"were">>, <<"had", "to">>}>>, FALSE) >>

GeneralPatterns ==
    << Pat(<<W("why"), {<<"do", "you", "want">>, <<"are", "you", "interested">>,
                        <<"openai">>}>>, TRUE),
       Pat(<<W("what"), {<<"interests">>, <<"excites">>, <<"motivates">>}, W("you")>>,
           FALSE),
       Pat(<<W("where"), W("do"), W("you"), W("see"), W("yourself")>>, FALSE),
       Pat(<<W("what"), {<<"are", "your">>, <<"do", "you", "know", "about">>}>>, FALSE),
       Pat(<<W("do"), W("you"), W("have"), {<<>>, <<"any">>}, W("questions")>>, TRUE),
       Pat(<<W("is"), W("there"), W("anything")>>, FALSE),
       Pat(<<W("tell"), MeUs, W("about"), {<<"openai">>, <<"this", "role">>}>>, FALSE) >>

\* COMPILED_PATTERNS, in the order of the dict.
QuestionPatterns ==
    << [qtype |-> "behavioral", patterns |-> BehavioralPatterns],
       [qtype |-> "technical", patterns |-> TechnicalPatterns],
       [qtype |-> "situational", patterns |-> SituationalPatterns],
       [qtype |-> "general", patterns |-> GeneralPatterns] >>

RECURSIVE Expand(_)
\* every word sequence a sequence of alternatives stands for
Expand(alts) ==
    IF alts = <<>> THEN {<<>>}
    ELSE {h \o r : h \in Head(alts), r \in Expand(Tail(alts))}

\* pattern.search(text_lower)
PatternSearch(p, words) ==
    \E e \in Expand(p.alts) :
        IF p.anchored THEN IsPrefix(e, words) ELSE IsInfix(e, words)

\* the first type, in dict order, one of whose patterns matches; "" for None
MatchedType(words) ==
    LET hits == {i \in DOMAIN QuestionPatterns :
                    \E j \in DOMAIN QuestionPatterns[i].patterns :
                        PatternSearch(QuestionPatterns[i].patterns[j], words)}
    IN  IF hits = {} THEN ""
        ELSE QuestionPatterns[CHOOSE i \in hits : \A k \in hits : i <= k].qtype

Detection(isq, q, qtype, conf) ==
    [is_question |-> isq, question |-> q, question_type |-> qtype, confidence |-> conf]

\* A detector that takes every text of five characters or more for a question.
DetectEverything(t) ==
    IF CharLen(t) < MinQuestionChars
    THEN Detection(FALSE, NoText, "none", "high")
    ELSE Detection(TRUE, t,
                   IF MatchedType(t.words) # "" THEN MatchedType(t.words) ELSE "general",
                   IF MatchedType(t.words) # "" THEN "high"
                   ELSE IF t.end = "?" \/ (\E q \in FastQuestionWords : IsPrefix(q, t.words))
                        THEN "medium" ELSE "low")

detect_question_fast(t) ==
    IF CharLen(t) < MinQuestionChars
    THEN Detection(FALSE, NoText, "none", "high")
    ELSE LET has_question_mark == t.end = "?"
             starts_with_question_word ==
                 \E q \in FastQuestionWords : IsPrefix(q, t.words)
             matched_type == MatchedType(t.words)
             is_question ==
                 has_question_mark \/ starts_with_question_word \/ matched_type # ""
             confidence ==
                 IF matched_type # "" THEN "high"
                 ELSE IF has_question_mark \/ starts_with_question_word THEN "medium"
                 ELSE "low"
         IN  Detection(is_question,
                       IF is_question THEN t ELSE NoText,
                       IF is_question
                       THEN (IF matched_type # "" THEN matched_type ELSE "general")
                       ELSE "none",
                       confidence)

\* websocket.py 349: the condition under which on_transcript asks
\* claude_service.detect_question (stage 2)
NeedsStage2(detection) == detection.confidence = "low" /\ detection.is_question

MinCompleteWords == 5

is_question_likely_complete(t) ==
    IF t.words = <<>> THEN FALSE
    ELSE IF Len(t.words) < MinCompleteWords THEN FALSE
    ELSE IF t.end = "?" THEN TRUE
    ELSE IF Len(t.words) >= LongTextWords THEN TRUE
    ELSE t.end \in {"?", ".", "!"}

-----------------------------------------------------------------------------
(* Knowledge index (claude.py 479-562).  _qa_index is a dict; it is         *)
(* modelled in insertion order as a sequence of [key, item].                *)
QAItem(id, q, vs, a) == [id |-> id, question |-> q, variations |-> vs, answer |-> a]

ItemAboutYou == QAItem("qa1", QAboutYouPlain, <<QAboutYouLongPlain>>, StoredAnswer)
NoItem == QAItem("", NoText, <<>>, "")

\* d[key] = item on a dict: an existing key keeps its place.
DictPut(d, k, item) ==
    LET at == {i \in DOMAIN d : d[i].key = k}
    IN  IF at # {}
        THEN [d EXCEPT ![CHOOSE i \in at : TRUE] = [key |-> k, item |-> item]]
        ELSE Append(d, [key |-> k, item |-> item])

RECURSIVE PutVariations(_, _, _)
PutVariations(d, item, vs) ==
    IF vs = <<>> THEN d
    ELSE PutVariations(
            IF Head(vs).words # <<>>
            THEN DictPut(d, normalize_question(Head(vs)), item) ELSE d,
            item, Tail(vs))

RECURSIVE IndexItems(_, _)
IndexItems(d, items) ==
    IF items = <<>> THEN d
    ELSE LET it == Head(items)
             withMain == DictPut(d, normalize_question(it.question), it)
         IN  IndexItems(PutVariations(withMain, it, it.variations), Tail(items))

\* An index builder that adds to what the index holds.
BuildWithoutClear(items) == IndexItems(qa_index, items)

\* build_qa_index: clear, then index every main question and variation.
build_qa_index(items) == IndexItems(<<>>, items)

FuzzyThresholdPct == 85
EarlyExitPct == 95

RECURSIVE FuzzyScan(_, _, _, _, _)
\* the loop of find_matching_qa_pair_fast from entry i on; best is the index
\* of the best entry so far (0 for none) and bestSim its similarity.
FuzzyScan(d, k, i, best, bestSim) ==
    IF i > Len(d)
    THEN (IF bestSim >= FuzzyThresholdPct THEN d[best].item ELSE NoItem)
    ELSE LET sim == calculate_similarity(k, d[i].key)
         IN  IF sim > bestSim
             THEN (IF sim >= EarlyExitPct THEN d[i].item
                   ELSE FuzzyScan(d, k, i + 1, i, sim))
             ELSE FuzzyScan(d, k, i + 1, best, bestSim)

\* A lookup that goes straight to the similarity scan.
FuzzyOnlyLookup(d, q) ==
    IF d = <<>> THEN NoItem ELSE FuzzyScan(d, normalize_question(q), 1, 0, 0)

\* find_matching_qa_pair_fast; NoItem stands for None.
find_matching_qa_pair_fast(d, q) ==
    LET k == normalize_question(q)
        exact == {i \in DOMAIN d : d[i].key = k}
    IN  IF d = <<>> THEN NoItem
        ELSE IF exact # {} THEN d[CHOOSE i \in exact : TRUE].item
        ELSE FuzzyScan(d, k, 1, 0, 0)

\* the step of find_matching_qa_pair_fast that produced the result
LookupPath(d, q) ==
    IF d = <<>> THEN "none"
    ELSE IF \E i \in DOMAIN d : d[i].key = normalize_question(q) THEN "exact"
    ELSE "fuzzy"

-----------------------------------------------------------------------------
(* decompose_question (claude.py 236-310).  A question is its words; the    *)
(* sub-questions are word sequences.                                        *)
Conjunctions == {"and", "however", "also", "but"}
MaxSubQuestions == 3

RECURSIVE SplitWords(_, _, _, _)
\* re.split(r'\s+(?:and|however|also|but)\s+', q) from word i on, blank parts
\* dropped: a conjunction separates when whitespace stands on both of its
\* sides, and the whitespace a separator consumed is not there for the next.
SplitWords(ws, i, cur, afterSep) ==
    LET part == IF cur = <<>> THEN <<>> ELSE <<cur>>
    IN  IF i > Len(ws) THEN part
        ELSE IF ws[i] \in Conjunctions /\ i > 1 /\ i < Len(ws) /\ ~afterSep
             THEN part \o SplitWords(ws, i + 1, <<>>, TRUE)
             ELSE SplitWords(ws, i + 1, Append(cur, ws[i]), FALSE)

heuristic_split(q) == SplitWords(q.words, 1, <<>>, FALSE)

\* queries[:3]
FirstThree(queries) == SubSeq(queries, 1, MaxSubQuestions)

\* path is how the structured-output call ended: "parsed" with the list api,
\* "timeout" (asyncio.TimeoutError) or "raised" (any other exception).
decompose_question(q, path, api) ==
    LET queries == heuristic_split(q)
    IN  CASE path = "parsed" ->
                 IF Len(api) > MaxSubQuestions THEN FirstThree(api) ELSE api
          [] path = "timeout" ->
                 IF Len(queries) > MaxSubQuestions THEN FirstThree(queries) ELSE queries
          [] OTHER ->
                 IF Len(queries) > MaxSubQuestions THEN FirstThree(queries)
                 ELSE IF queries # <<>> THEN queries ELSE <<q.words>>

-----------------------------------------------------------------------------
(* find_relevant_qa_pairs (claude.py 312-418) once the question has been    *)
(* decomposed: one search per sub-question, then dedup, sort, top five.     *)
(* Similarities are in hundredths.                                          *)
MaxTotalResults == 5
ExactMatchPct == 92

\* a hit of search_similar_qa_pairs
Match(id, sim) == [id |-> id, similarity |-> sim]

\* how one search_similar_qa_pairs call ended, and what it returned
SearchOutcome(status, matches) == [status |-> status, matches |-> matches]

\* A search_one that lets a failure of its search through.
SearchOneUnguarded(o) ==
    [raised |-> o.status # "ok", matches |-> IF o.status = "ok" THEN o.matches ELSE <<>>]

\* search_one: the matches, or [] when the search timed out or raised.
search_one(o) ==
    [raised |-> FALSE, matches |-> IF o.status = "ok" THEN o.matches ELSE <<>>]

RECURSIVE Flatten(_)
\* for matches in search_results: for match in matches
Flatten(lists) ==
    IF lists = <<>> THEN <<>> ELSE Head(lists) \o Flatten(Tail(lists))

RECURSIVE DedupById(_, _)
\* if match['id'] not in seen_ids: append, add the id; each match is first
\* given its is_exact_match flag.
DedupById(ms, seen_ids) ==
    IF ms = <<>> THEN <<>>
    ELSE LET m == Head(ms)
             flagged == [id |-> m.id, similarity |-> m.similarity,
                         is_exact_match |-> m.similarity > ExactMatchPct]
         IN  IF m.id \in seen_ids THEN DedupById(Tail(ms), seen_ids)
             ELSE <<flagged>> \o DedupById(Tail(ms), seen_ids \cup {m.id})

RECURSIVE InsertBySimilarity(_, _)
InsertBySimilarity(sorted, m) ==
    IF sorted = <<>> THEN <<m>>
    ELSE IF Head(sorted).similarity >= m.similarity
         THEN <<Head(sorted)>> \o InsertBySimilarity(Tail(sorted), m)
         ELSE <<m>> \o sorted

RECURSIVE SortBySimilarity(_)
\* list.sort(key=similarity, reverse=True): stable, highest first
SortBySimilarity(ms) ==
    IF ms = <<>> THEN <<>>
    ELSE InsertBySimilarity(SortBySimilarity(SubSeq(ms, 1, Len(ms) - 1)), ms[Len(ms)])

\* steps 3 and 4 on the gathered search results
FuseMatches(search_results) ==
    LET all_matches == SortBySimilarity(DedupById(Flatten(search_results), {}))
    IN  SubSeq(all_matches, 1,
               IF Len(all_matches) > MaxTotalResults THEN MaxTotalResults
               ELSE Len(all_matches))

\* Steps 2 to 4; an exception that leaves a search_one leaves gather and is
\* caught by the outer handler, which returns [].  The function itself
\* never raises.
find_relevant_qa_pairs(outcomes) ==
    LET results == [i \in DOMAIN outcomes |-> search_one(outcomes[i])]
    IN  [raised |-> FALSE,
         matches |-> IF \E i \in DOMAIN results : results[i].raised THEN <<>>
                     ELSE FuseMatches([i \in DOMAIN results |-> results[i].matches])]

-----------------------------------------------------------------------------
(* The session coordinator websocket_transcribe (websocket.py 263-775).     *)
(* Coroutines run on one event loop: a step of the model is the code a      *)
(* coroutine runs between two suspension points.  The suspension points are *)
(* the websocket sends and the awaits inside the generation services; the   *)
(* persistence helpers call the synchronous database client and never       *)
(* suspend.                                                                 *)
TSoundsGood == Txt(<<"sounds", "good">>, TRUE, ".")
\* the transcripts Deepgram delivers: <<text, is_final>>
Transcripts ==
    {<<QAboutYou, TRUE>>, <<QDeadline, TRUE>>, <<TSoundsGood, TRUE>>, <<QDeadline, FALSE>>}
\* the questions of generate_answer messages
ManualQuestions == {QAboutYou, QDeadline}
\* the answers of the generation API during a session
SessionApiTexts == {AcmeText}
UserIds == {"", "u1"}        \* "" when the context message carries no user_id
QAPairLists == {<<>>, <<ItemAboutYou>>}

\* A message on the socket; cid tags the transcript task or manual request
\* that sent it.
Msg(type, cid, body) == [type |-> type, cid |-> cid, body |-> body]

\* The locals of one on_transcript call, or of the generate_answer branch of
\* the receive loop.
Cycle(pc, cid) ==
    [pc |-> pc, cid |-> cid, text |-> NoText, final |-> FALSE,
     question |-> NoText, question_type |-> "none",
     gen |-> GenIdle,            \* the generator being iterated
     generated_answer |-> <<>>,  \* the chunks concatenated so far
     session_examples |-> <<>>,  \* what get_session_examples returned
     new_examples |-> <<>>,      \* what the extraction appended
     saved |-> FALSE,            \* the answer was saved to the session
     used_before |-> <<>>,       \* session_examples_used when extraction ran
     used_at_start |-> <<>>,     \* session_examples_used when the stream started
     prepared |-> FALSE]         \* the transcript is a prepared item's question
                                 \* and the session was idle when it came

Open == main.pc # "closed"

AnswerTypes ==
    {"answer_temporary", "answer", "answer_stream_start", "answer_stream_chunk",
     "answer_stream_end"}

\* manager.send_json: False, and nothing sent, once the socket is closed.
\* The wire is kept as the messages of each sender (sender 0 is the receive
\* loop's acknowledgements) and, for the answer messages, the order in which
\* the senders alternate: consecutive messages of one sender count once, and
\* the last three senders are kept.
Alternate(order, cid) ==
    IF order # <<>> /\ order[Len(order)] = cid THEN order
    ELSE IF Len(order) < 3 THEN Append(order, cid)
    ELSE Append(Tail(order), cid)

send_json(m) ==
    /\ socket' = IF Open THEN [socket EXCEPT ![m.cid] = Append(@, m)] ELSE socket
    /\ wire_order' = IF Open /\ m.type \in AnswerTypes
                     THEN Alternate(wire_order, m.cid) ELSE wire_order

NoSend == UNCHANGED <<socket, wire_order>>


\* create_interview_session / get_session_examples / save_session_message /
\* end_interview_session against the rows of one session.
NewSessionRow == [examples |-> <<>>, ended |-> FALSE]
get_session_examples(st, sid) == IF sid # 0 THEN st[sid].examples ELSE <<>>
save_session_message(st, sid, examples) ==
    [st EXCEPT ![sid].examples = @ \o examples]
end_interview_session(st, sid) ==
    IF sid # 0 THEN [st EXCEPT ![sid].ended = TRUE] ELSE st

\* claude_service.detect_question: the verdict of the API.
ClaudeDetections(t) ==
    {Detection(TRUE, t, "general", "high"), Detection(FALSE, NoText, "none", "high")}

\* websocket.py 349-354: the fast detection, verified by the API when its
\* confidence is low and it says question.
DetectionsOf(t) ==
    LET d == detect_question_fast(t)
    IN  IF d.confidence = "low" /\ d.is_question THEN ClaudeDetections(t) ELSE {d}

IsPreparedQuestion(t) ==
    \E k \in DOMAIN user_context.qa_pairs :
        normalize_question(user_context.qa_pairs[k].question) = normalize_question(t)

SessInit ==
    /\ accumulated_text = NoText
    /\ is_processing = FALSE
    /\ user_id = ""
    /\ user_profile = FALSE
    /\ session_id = 0
    /\ user_context = [qa_pairs |-> <<>>, bad |-> FALSE]
    /\ qa_index = <<>>
    /\ session_examples_used = <<>>
    /\ store = <<>>
    /\ socket = (0 :> <<>>)
    /\ wire_order = <<>>
    /\ tasks = <<>>
    /\ main = Cycle("recv", 0)
    /\ counters = [events |-> 0, cid |-> 0]

\* websocket.py 404-409 / 667-676: fetch the session's examples, signal start.
StreamStart(c, pc) ==
    [c EXCEPT !.pc = pc, !.session_examples = get_session_examples(store, session_id),
              !.used_at_start = session_examples_used,
              !.gen = GenIdle, !.generated_answer = <<>>]

\* The generator a cycle iterates: created from the session state when the
\* async for starts.
GenOf(c) ==
    IF c.gen.pc = "idle"
    THEN GenStart(Request(c.question, user_profile, user_context.bad,
                          c.session_examples))
    ELSE c.gen

\* generated_answer += chunk raises TypeError when the chunk is no str.
ConcatRaises(chunk) == chunk.kind = "tuple"

\* websocket.py 439-466 / 699-721: extraction and save after the stream.
Extracted(c) ==
    LET save == session_id # 0 /\ c.generated_answer # <<>>
        new == NewExamples(ExamplesOf(c.generated_answer), c.session_examples)
    IN  [c EXCEPT !.saved = save, !.new_examples = IF save THEN new ELSE <<>>,
                  !.used_before = session_examples_used]

AfterStream(c) ==
    LET e == Extracted(c)
    IN  /\ store' = IF e.saved
                    THEN save_session_message(store, session_id, e.new_examples)
                    ELSE store
        /\ session_examples_used' = session_examples_used \o e.new_examples
        /\ send_json(Msg("answer_stream_end", c.cid, ""))

\* A coroutine that returned: its locals are gone.
Finished(c) == [Cycle("done", c.cid) EXCEPT !.prepared = c.prepared]


sessShared == <<strategy, qdrant, gen, consumed, requests, bridgeVars, peerVars, probe>>

\* deepgram_service._handle_transcript runs asyncio.create_task(callback(...));
\* the loop starts the task, which runs on_transcript 317-335 up to its first
\* send: a final text is stored and the transcription goes out.
TranscriptEvent ==
    /\ Open
    /\ counters.events < MaxEvents
    /\ \E t \in Transcripts :
          LET cid == counters.cid + 1
          IN  /\ tasks' = Append(tasks, [Cycle("t_sent", cid)
                                            EXCEPT !.text = t[1], !.final = t[2],
                                                   !.prepared = t[2] /\ ~is_processing
                                                       /\ IsPreparedQuestion(t[1])])
              /\ accumulated_text' = IF t[2] THEN t[1] ELSE accumulated_text
              /\ socket' = socket @@
                     (cid :> <<Msg("transcription", cid,
                                   IF t[2] THEN "final" ELSE "interim")>>)
    /\ wire_order' = wire_order
    /\ counters' = [counters EXCEPT !.events = @ + 1, !.cid = @ + 1]
    /\ UNCHANGED <<is_processing, user_id, user_profile, session_id,
                   user_context, qa_index, session_examples_used, store, main,
                   answer_cache>>
    /\ UNCHANGED sessShared

\* on_transcript 337-382: the gate on is_processing, the pre-filter, the
\* detection, the completeness check, and the question_detected message.
OnTranscriptDetect(i) ==
    LET c == tasks[i]
        entered == c.final /\ ~is_processing
        p == [c EXCEPT !.prepared = @ /\ entered /\ accumulated_text = c.text]
    IN  /\ c.pc = "t_sent"
        /\ \E d \in DetectionsOf(accumulated_text) :
              IF /\ entered
                 /\ is_likely_question(accumulated_text)
                 /\ d.is_question /\ d.question # NoText
                 /\ is_question_likely_complete(d.question)
              THEN /\ is_processing' = TRUE
                   /\ tasks' = [tasks EXCEPT ![i] =
                                   [p EXCEPT !.pc = "t_detected", !.question = d.question,
                                             !.question_type = d.question_type]]
                   /\ send_json(Msg("question_detected", c.cid, ""))
              ELSE \* not entered, or an early return through finally
                   /\ is_processing' = is_processing
                   /\ tasks' = [tasks EXCEPT ![i] = Finished(p)]
                   /\ NoSend
        /\ UNCHANGED <<accumulated_text, user_id, user_profile, session_id, user_context,
                       qa_index, session_examples_used, store, main, counters,
                       answer_cache>>
        /\ UNCHANGED sessShared

\* on_transcript 384-391: the temporary answer.
OnTranscriptTemporary(i) ==
    LET c == tasks[i]
    IN  /\ c.pc = "t_detected"
        /\ send_json(Msg("answer_temporary", c.cid, ""))
        /\ tasks' = [tasks EXCEPT ![i].pc = "t_temp"]
        /\ UNCHANGED <<accumulated_text, is_processing, user_id, user_profile, session_id,
                       user_context, qa_index, session_examples_used, store, main,
                       counters, answer_cache>>
        /\ UNCHANGED sessShared

\* on_transcript 399-409: session context, then answer_stream_start.
OnTranscriptStreamStart(i) ==
    LET c == tasks[i]
    IN  /\ c.pc = "t_temp"
        /\ send_json(Msg("answer_stream_start", c.cid, ""))
        /\ tasks' = [tasks EXCEPT ![i] = StreamStart(c, "t_stream")]
        /\ UNCHANGED <<accumulated_text, is_processing, user_id, user_profile, session_id,
                       user_context, qa_index, session_examples_used, store, main,
                       counters, answer_cache>>
        /\ UNCHANGED sessShared

\* on_transcript 418-437: one turn of the async for.  A chunk that is no str
\* raises in the concatenation: finally resets is_processing and the outer
\* except logs the error.
OnTranscriptStream(i) ==
    LET c == tasks[i]
    IN  /\ c.pc = "t_stream"
        /\ \E o \in GenSteps(GenOf(c), strategy, qdrant, SessionApiTexts, answer_cache) :
              /\ answer_cache' = o.cache
              /\ IF o.yield # NoChunk /\ ConcatRaises(o.yield)
                 THEN /\ tasks' = [tasks EXCEPT ![i] = Finished(c)]
                      /\ is_processing' = FALSE
                      /\ NoSend
                 ELSE /\ tasks' = [tasks EXCEPT ![i] =
                            [c EXCEPT !.gen = o.g,
                                      !.pc = IF o.g.pc = "done" THEN "t_after" ELSE @,
                                      !.generated_answer =
                                          IF o.yield # NoChunk
                                          THEN Append(@, o.yield.text) ELSE @]]
                      /\ is_processing' = is_processing
                      /\ IF o.yield # NoChunk
                         THEN send_json(Msg("answer_stream_chunk", c.cid, o.yield.text))
                         ELSE NoSend
        /\ UNCHANGED <<accumulated_text, user_id, user_profile, session_id, user_context,
                       qa_index, session_examples_used, store, main, counters>>
        /\ UNCHANGED sessShared

\* on_transcript 439-473: extraction, save, answer_stream_end.
OnTranscriptAfterStream(i) ==
    LET c == tasks[i]
    IN  /\ c.pc = "t_after"
        /\ AfterStream(c)
        /\ tasks' = [tasks EXCEPT ![i] = [Extracted(c) EXCEPT !.pc = "t_end"]]
        /\ UNCHANGED <<accumulated_text, is_processing, user_id, user_profile, session_id,
                       user_context, qa_index, main, counters, answer_cache>>
        /\ UNCHANGED sessShared

\* on_transcript 474-475: finally: is_processing = False.
OnTranscriptFinally(i) ==
    LET c == tasks[i]
    IN  /\ c.pc = "t_end"
        /\ is_processing' = FALSE
        /\ tasks' = [tasks EXCEPT ![i] = Finished(c)]
        /\ UNCHANGED <<accumulated_text, user_id, user_profile, session_id, user_context,
                       qa_index, session_examples_used, store, socket, wire_order, main, counters,
                       answer_cache>>
        /\ UNCHANGED sessShared


\* Receive loop, "context" (websocket.py 553-605).  found: a profile row
\* exists for the user; created: create_interview_session returned an id.
RecvContext ==
    /\ main.pc = "recv"
    /\ counters.events < MaxEvents
    /\ \E uid \in UserIds, qa \in QAPairLists, bad \in {FALSE},
          found \in BOOLEAN, created \in {TRUE} :
          LET switch == uid # "" /\ uid # user_id
              create == switch /\ session_id = 0 /\ created
          IN  /\ user_context' = [qa_pairs |-> qa, bad |-> bad]
              /\ user_id' = IF switch THEN uid ELSE user_id
              /\ user_profile' = IF switch THEN found ELSE user_profile
              /\ store' = IF create THEN Append(store, NewSessionRow) ELSE store
              /\ session_id' = IF create THEN Len(store) + 1 ELSE session_id
              /\ qa_index' = IF qa # <<>> THEN build_qa_index(qa) ELSE qa_index
    /\ send_json(Msg("context_ack", 0, ""))
    /\ counters' = [counters EXCEPT !.events = @ + 1]
    /\ UNCHANGED <<accumulated_text, is_processing, session_examples_used, tasks, main,
                   answer_cache>>
    /\ UNCHANGED sessShared

\* Receive loop, "clear" (websocket.py 607-626).
RecvClear ==
    /\ main.pc = "recv"
    /\ counters.events < MaxEvents
    /\ store' = end_interview_session(store, session_id)
    /\ session_examples_used' = IF session_id # 0 THEN <<>> ELSE session_examples_used
    /\ session_id' = 0
    /\ accumulated_text' = NoText
    /\ user_context' = [user_context EXCEPT !.qa_pairs = <<>>]
    /\ answer_cache' = <<>>
    /\ qa_index' = build_qa_index(<<>>)
    /\ send_json(Msg("cleared", 0, ""))
    /\ counters' = [counters EXCEPT !.events = @ + 1]
    /\ UNCHANGED <<is_processing, user_id, user_profile, tasks, main>>
    /\ UNCHANGED sessShared

\* Receive loop, "generate_answer" (websocket.py 628-642): the temporary answer.
RecvGenerateAnswer ==
    /\ main.pc = "recv"
    /\ counters.events < MaxEvents
    /\ \E q \in ManualQuestions :
          main' = [Cycle("ga_lookup", counters.cid + 1) EXCEPT !.question = q]
    /\ socket' = socket @@ (counters.cid + 1 :>
                                 <<Msg("answer_temporary", counters.cid + 1, "")>>)
    /\ wire_order' = Alternate(wire_order, counters.cid + 1)
    /\ counters' = [counters EXCEPT !.events = @ + 1, !.cid = @ + 1]
    /\ UNCHANGED <<accumulated_text, is_processing, user_id, user_profile, session_id,
                   user_context, qa_index, session_examples_used, store, tasks,
                   answer_cache>>
    /\ UNCHANGED sessShared

\* websocket.py 644-676: the prepared answer when the index has a match, else
\* the start of a streamed answer.
ManualLookup ==
    LET matched_qa == find_matching_qa_pair_fast(qa_index, main.question)
    IN  /\ main.pc = "ga_lookup"
        /\ IF matched_qa # NoItem
           THEN /\ send_json(Msg("answer", main.cid, matched_qa.answer))
                /\ main' = [main EXCEPT !.pc = "ga_end"]
           ELSE /\ send_json(Msg("answer_stream_start", main.cid, ""))
                /\ main' = StreamStart(main, "ga_stream")
        /\ UNCHANGED <<accumulated_text, is_processing, user_id, user_profile, session_id,
                       user_context, qa_index, session_examples_used, store, tasks,
                       counters, answer_cache>>
        /\ UNCHANGED sessShared

\* websocket.py 678-697: one turn of the async for.  Only JSONDecodeError is
\* caught inside the loop: a TypeError from the concatenation reaches the
\* handler at 758-766, which reports it, ends the session and lets the
\* endpoint return (the socket closes).
ManualStream ==
    /\ main.pc = "ga_stream"
    /\ \E o \in GenSteps(GenOf(main), strategy, qdrant, SessionApiTexts, answer_cache) :
          /\ answer_cache' = o.cache
          /\ IF o.yield # NoChunk /\ ConcatRaises(o.yield)
             THEN /\ send_json(Msg("error", main.cid, ""))
                  /\ store' = end_interview_session(store, session_id)
                  /\ main' = Cycle("closed", main.cid)
             ELSE /\ main' = [main EXCEPT !.gen = o.g,
                                 !.pc = IF o.g.pc = "done" THEN "ga_after" ELSE @,
                                 !.generated_answer =
                                     IF o.yield # NoChunk
                                     THEN Append(@, o.yield.text) ELSE @]
                  /\ store' = store
                  /\ IF o.yield # NoChunk
                         THEN send_json(Msg("answer_stream_chunk", main.cid, o.yield.text))
                         ELSE NoSend
    /\ UNCHANGED <<accumulated_text, is_processing, user_id, user_profile, session_id,
                   user_context, qa_index, session_examples_used, tasks, counters>>
    /\ UNCHANGED sessShared

\* websocket.py 699-728: extraction, save, answer_stream_end.
ManualAfterStream ==
    /\ main.pc = "ga_after"
    /\ AfterStream(main)
    /\ main' = [Extracted(main) EXCEPT !.pc = "ga_end"]
    /\ UNCHANGED <<accumulated_text, is_processing, user_id, user_profile, session_id,
                   user_context, qa_index, tasks, counters, answer_cache>>
    /\ UNCHANGED sessShared

\* The last send of the branch returned: back to websocket.receive() (510).
ManualFinish ==
    /\ main.pc = "ga_end"
    /\ main' = Cycle("recv", 0)
    /\ UNCHANGED <<accumulated_text, is_processing, user_id, user_profile, session_id,
                   user_context, qa_index, session_examples_used, store, socket, wire_order, tasks,
                   counters, answer_cache>>
    /\ UNCHANGED sessShared

\* Text frames that are no control message: text json.loads rejects, JSON
\* that is no object (a list, a number, a string, null), and an object whose
\* "type" is missing or unknown.
InvalidFrames == {"not_json", "not_object", "untagged"}

\* Receive loop, a text frame (websocket.py 538-545, 740-775).  json.loads
\* raises JSONDecodeError, caught at 740; data.get on a value that is no dict
\* raises AttributeError, which only the endpoint's handler at 758 catches;
\* an object without a known type matches no branch.
RecvInvalid(f) ==
    /\ main.pc = "recv"
    /\ counters.events < MaxEvents
    /\ IF f = "not_json" THEN send_json(Msg("error", 0, "Invalid JSON message"))
       ELSE IF f = "not_object" THEN send_json(Msg("error", 0, "Connection error"))
       ELSE NoSend
    /\ store' = IF f = "not_object" THEN end_interview_session(store, session_id)
                ELSE store
    /\ main' = IF f = "not_object" THEN Cycle("closed", 0) ELSE main
    /\ counters' = [counters EXCEPT !.events = @ + 1]
    /\ UNCHANGED <<accumulated_text, is_processing, user_id, user_profile, session_id,
                   user_context, qa_index, session_examples_used, tasks, answer_cache>>
    /\ UNCHANGED sessShared

SessNext ==
    \/ TranscriptEvent
    \/ \E i \in DOMAIN tasks : OnTranscriptDetect(i)
    \/ \E i \in DOMAIN tasks : OnTranscriptTemporary(i)
    \/ \E i \in DOMAIN tasks : OnTranscriptStreamStart(i)
    \/ \E i \in DOMAIN tasks : OnTranscriptStream(i)
    \/ \E i \in DOMAIN tasks : OnTranscriptAfterStream(i)
    \/ \E i \in DOMAIN tasks : OnTranscriptFinally(i)
    \/ RecvContext
    \/ RecvClear
    \/ \E f \in InvalidFrames : RecvInvalid(f)
    \/ RecvGenerateAnswer
    \/ ManualLookup
    \/ ManualStream
    \/ ManualAfterStream
    \/ ManualFinish

LLMPinned == gen = GenIdle /\ consumed = <<>> /\ requests = 0


-----------------------------------------------------------------------------
(* The transcoder bridge DeepgramStreamingService (deepgram_service.py).    *)
(* The service's methods run on the event-loop thread; each converter       *)
(* worker is a thread of its own.  _cleanup_ffmpeg is synchronous: while it *)
(* runs, the loop runs no coroutine.                                        *)
MaxRetries == 3
MaxConsecutiveTimeouts == 5
RetryDelayMs == 100       \* retry_delay = 0.1, in milliseconds

Proc == [alive |-> TRUE, stdin_open |-> TRUE, inbuf |-> 0, stdout |-> <<>>]

\* The locals of one _ffmpeg_to_deepgram_loop thread.  born: the decoder
\* started together with the thread; pid: the decoder it reads from; fut: the
\* future it waits on; conn: the connection its coroutine sends on.
Worker(pid) ==
    [pc |-> "top", born |-> pid, pid |-> pid, data |-> 0, attempt |-> 0,
     consecutive_timeouts |-> 0, fut |-> "none", conn |-> 0,
     retry_delay |-> 0, slept |-> <<>>]

otherThanBridge == <<llmVars, sessVars, peerVars, probe>>

\* The two websocket_transcribe calls of the two-session model.  "A" is the
\* session whose locals are the session variables above; "B" is a second
\* client.  conn / proc / worker: what the call's own setup_connection
\* created; heard: the connections whose events reached its callbacks.
Sids == {"A", "B"}

Endpoint ==
    [pc |-> "none", conn |-> 0, proc |-> 0, worker |-> 0, heard |-> <<>>,
     qa_pairs |-> <<>>, sent |-> <<>>, events |-> 0]

\* One call of a pure function: its arguments, and once it has returned
\* (done) its result: item and via for a lookup, flag for the completeness
\* test, subs for a decomposition.
Probe(fn, items, text, path, api) ==
    [fn |-> fn, items |-> items, text |-> text, path |-> path, api |-> api,
     done |-> FALSE, item |-> NoItem, via |-> "none", flag |-> FALSE, subs |-> <<>>,
     searches |-> <<>>, fused |-> <<>>, raised |-> FALSE,
     keys |-> <<>>, sims |-> <<>>,
     detection |-> Detection(FALSE, NoText, "none", "high"), stage2 |-> FALSE]

\* no pure-function call is being looked at
NoProbe == Probe("none", <<>>, NoText, "none", <<>>)

PeersInit ==
    /\ callbacks = "none"
    /\ handlers = <<>>
    /\ endpoints = [s \in Sids |-> Endpoint]

BridgeInit ==
    /\ ffmpeg_process = 0
    /\ converter_thread = 0
    /\ stop_converter = FALSE
    /\ is_connected = FALSE
    /\ connection = 0
    /\ procs = <<>>
    /\ workers = <<>>
    /\ conns = <<>>
    /\ orphans = <<>>
    /\ loop = [pc |-> "idle", last |-> "none", calls |-> 0, ret |-> "none"]
    /\ delivered = <<>>
    /\ read_log = <<>>
    /\ fed = [audio |-> 0, frames |-> 0]

\* the loop is free to run scheduled coroutines
LoopFree == loop.pc \in {"idle", "disc_closing"}

AliveProcs == {p \in DOMAIN procs : procs[p].alive}
AliveWorkers == {t \in DOMAIN workers : workers[t].pc # "exit"}

\* _cleanup_ffmpeg 72-90: raise the stop flag, terminate and reap the decoder.
CleanupKill ==
    /\ stop_converter' = TRUE
    /\ procs' = IF ffmpeg_process # 0
                THEN [procs EXCEPT ![ffmpeg_process].alive = FALSE] ELSE procs
    /\ ffmpeg_process' = 0

\* _cleanup_ffmpeg 92-95: converter_thread.join(timeout=2.0) returns when the
\* thread has ended, or after two seconds.  A worker waiting in
\* future.result(timeout=5.0) waits for a coroutine of the loop this very
\* thread is blocking: it outlasts the join.
JoinReturns ==
    IF converter_thread = 0 THEN TRUE
    ELSE workers[converter_thread].pc \in {"exit", "wait"}

\* setup_connection 113-114, first part of _cleanup_ffmpeg.
SetupConnectionCore ==
    /\ loop.pc = "idle"
    /\ loop.calls < MaxCalls
    /\ CleanupKill
    /\ loop' = [loop EXCEPT !.pc = "setup_join", !.calls = @ + 1]
    /\ UNCHANGED <<converter_thread, is_connected, connection, workers, conns, orphans,
                   delivered, read_log, fed>>

SetupConnection == SetupConnectionCore /\ UNCHANGED otherThanBridge

\* setup_connection 114-143: the join returns, the handles are cleared, the
\* new connection is stored, _start_ffmpeg starts a decoder and its worker.
SetupStartCore ==
    /\ loop.pc = "setup_join"
    /\ JoinReturns
    /\ conns' = Append(conns, TRUE)
    /\ connection' = Len(conns) + 1
    /\ is_connected' = FALSE
    /\ procs' = Append(procs, Proc)
    /\ ffmpeg_process' = Len(procs) + 1
    /\ stop_converter' = FALSE
    /\ workers' = Append(workers, Worker(Len(procs) + 1))
    /\ converter_thread' = Len(workers) + 1
    /\ loop' = [loop EXCEPT !.pc = "setup_started"]
    /\ UNCHANGED <<orphans, delivered, read_log, fed>>

SetupStart == SetupStartCore /\ UNCHANGED otherThanBridge

\* setup_connection 143-145.
SetupDoneCore ==
    /\ loop.pc = "setup_started"
    /\ is_connected' = TRUE
    /\ loop' = [loop EXCEPT !.pc = "idle", !.last = "setup_connection"]
    /\ UNCHANGED <<ffmpeg_process, converter_thread, stop_converter, connection, procs,
                   workers, conns, orphans, delivered, read_log, fed>>

SetupDone == SetupDoneCore /\ UNCHANGED otherThanBridge

\* disconnect 424-438, up to the join inside _cleanup_ffmpeg.
Disconnect ==
    /\ loop.pc = "idle"
    /\ loop.calls < MaxCalls
    /\ CleanupKill
    /\ loop' = [loop EXCEPT !.pc = "disc_join", !.calls = @ + 1]
    /\ UNCHANGED <<converter_thread, is_connected, connection, workers, conns, orphans,
                   delivered, read_log, fed>>
    /\ UNCHANGED otherThanBridge

\* disconnect 438-441: _cleanup_ffmpeg returns; with a connection the method
\* goes on to await its close.
DisconnectCleaned ==
    /\ loop.pc = "disc_join"
    /\ JoinReturns
    /\ converter_thread' = 0
    /\ loop' = IF connection # 0 THEN [loop EXCEPT !.pc = "disc_closing"]
               ELSE [loop EXCEPT !.pc = "idle", !.last = "disconnect"]
    /\ UNCHANGED <<ffmpeg_process, stop_converter, is_connected, connection, procs,
                   workers, conns, orphans, delivered, read_log, fed>>
    /\ UNCHANGED otherThanBridge

\* disconnect 441-446: the connection is closed and forgotten.
DisconnectClosed ==
    /\ loop.pc = "disc_closing"
    /\ conns' = [conns EXCEPT ![connection] = FALSE]
    /\ is_connected' = FALSE
    /\ connection' = 0
    /\ loop' = [loop EXCEPT !.pc = "idle", !.last = "disconnect"]
    /\ UNCHANGED <<ffmpeg_process, converter_thread, stop_converter, procs, workers,
                   orphans, delivered, read_log, fed>>
    /\ UNCHANGED otherThanBridge

\* finish 407-422: close the decoder's input, close the connection.
Finish ==
    /\ loop.pc = "idle"
    /\ loop.calls < MaxCalls
    /\ procs' = IF ffmpeg_process # 0
                THEN [procs EXCEPT ![ffmpeg_process].stdin_open = FALSE] ELSE procs
    /\ conns' = IF connection # 0 THEN [conns EXCEPT ![connection] = FALSE] ELSE conns
    /\ loop' = [loop EXCEPT !.last = "finish", !.calls = @ + 1]
    /\ UNCHANGED <<ffmpeg_process, converter_thread, stop_converter, is_connected,
                   connection, workers, orphans, delivered, read_log, fed>>
    /\ UNCHANGED otherThanBridge

\* send_audio 358-405: False without a live decoder or when the write fails,
\* else the chunk is written to the decoder's input.
\* A send_audio without its checks and handlers: the write's exception
\* reaches the caller.
SendAudioUnguarded(p, ps, broken) ==
    IF p = 0 \/ ~ps[p].alive \/ ~ps[p].stdin_open \/ broken
    THEN [ret |-> "raised", procs |-> ps]
    ELSE [ret |-> "true", procs |-> [ps EXCEPT ![p].inbuf = @ + 1]]

\* send_audio on the decoder p; broken: the decoder goes away under the
\* write (BrokenPipeError).  Writing to the closed stdin raises ValueError,
\* caught by the general handler.  ret is the value returned.
send_audio(p, ps, broken) ==
    IF p = 0 THEN [ret |-> "false", procs |-> ps]
    ELSE IF ~ps[p].alive THEN [ret |-> "false", procs |-> ps]
    ELSE IF ~ps[p].stdin_open THEN [ret |-> "false", procs |-> ps]
    ELSE IF broken THEN [ret |-> "false", procs |-> [ps EXCEPT ![p].alive = FALSE]]
    ELSE [ret |-> "true", procs |-> [ps EXCEPT ![p].inbuf = @ + 1]]

SendAudioUpTo(limit) ==
    /\ loop.pc = "idle"
    /\ fed.audio < limit
    /\ fed' = [fed EXCEPT !.audio = @ + 1]
    /\ \E broken \in BOOLEAN :
           LET out == send_audio(ffmpeg_process, procs, broken)
           IN  /\ procs' = out.procs
               /\ loop' = [loop EXCEPT !.last = "send_audio", !.ret = out.ret]
    /\ UNCHANGED <<ffmpeg_process, converter_thread, stop_converter, is_connected,
                   connection, workers, conns, orphans, delivered, read_log>>
    /\ UNCHANGED otherThanBridge

SendAudio == SendAudioUpTo(MaxAudio)

\* The decoder turns a chunk of its input into a PCM frame on its output.
Decode(p) ==
    /\ procs[p].alive
    /\ procs[p].inbuf > 0
    /\ procs' = [procs EXCEPT ![p].inbuf = @ - 1,
                              ![p].stdout = Append(@, fed.frames + 1)]
    /\ fed' = [fed EXCEPT !.frames = @ + 1]
    /\ UNCHANGED <<ffmpeg_process, converter_thread, stop_converter, is_connected,
                   connection, workers, conns, orphans, loop, delivered, read_log>>
    /\ UNCHANGED otherThanBridge

\* The decoder ends once its input is closed and converted.
DecoderExit(p) ==
    /\ procs[p].alive
    /\ ~procs[p].stdin_open
    /\ procs[p].inbuf = 0
    /\ procs' = [procs EXCEPT ![p].alive = FALSE]
    /\ UNCHANGED <<ffmpeg_process, converter_thread, stop_converter, is_connected,
                   connection, workers, conns, orphans, loop, delivered, read_log, fed>>
    /\ UNCHANGED otherThanBridge

\* _ffmpeg_to_deepgram_loop 271-276: the loop condition and the poll, on the
\* decoder self.ffmpeg_process names now.
WorkerTop(t) ==
    LET w == workers[t]
    IN  /\ w.pc = "top"
        /\ workers' = [workers EXCEPT ![t] =
              IF stop_converter \/ ffmpeg_process = 0 \/ ~procs[ffmpeg_process].alive
              THEN [w EXCEPT !.pc = "exit"]
              ELSE [w EXCEPT !.pc = "read", !.pid = ffmpeg_process]]
        /\ UNCHANGED <<ffmpeg_process, converter_thread, stop_converter, is_connected,
                       connection, procs, conns, orphans, loop, delivered, read_log, fed>>
        /\ UNCHANGED otherThanBridge

\* 278-298, 345-346: the blocking read; no data ends the thread; a frame is
\* scheduled on the loop when the connection is ready and skipped otherwise.
WorkerRead(t) ==
    LET w == workers[t]
        p == w.pid
        ready == connection # 0 /\ is_connected
    IN  /\ w.pc = "read"
        /\ procs[p].stdout # <<>> \/ ~procs[p].alive
        /\ IF procs[p].stdout # <<>>
           THEN /\ procs' = [procs EXCEPT ![p].stdout = Tail(@)]
                /\ read_log' = Append(read_log, [born |-> w.born, pid |-> p,
                                                 frame |-> Head(procs[p].stdout)])
                /\ workers' = [workers EXCEPT ![t] =
                      IF ready
                      THEN [w EXCEPT !.pc = "wait", !.data = Head(procs[p].stdout),
                                     !.attempt = 0, !.fut = "pending",
                                     !.retry_delay = RetryDelayMs, !.slept = <<>>,
                                     !.conn = connection]
                      ELSE [w EXCEPT !.pc = "top"]]
           ELSE /\ workers' = [workers EXCEPT ![t].pc = "exit"]
                /\ UNCHANGED <<procs, read_log>>
        /\ UNCHANGED <<ffmpeg_process, converter_thread, stop_converter, is_connected,
                       connection, conns, orphans, loop, delivered, fed>>
        /\ UNCHANGED otherThanBridge

\* 295-304, 337-344: the loop runs connection.send_media(data) and the worker
\* gets its result: delivered, or an exception when the connection is closed.
WorkerSent(t) ==
    LET w == workers[t]
    IN  /\ w.pc = "wait"
        /\ LoopFree
        /\ delivered' = IF conns[w.conn] THEN Append(delivered, w.data) ELSE delivered
        /\ workers' = [workers EXCEPT ![t] =
              [w EXCEPT !.pc = "top", !.fut = "none",
                        !.consecutive_timeouts = IF conns[w.conn] THEN 0 ELSE @]]
        /\ UNCHANGED <<ffmpeg_process, converter_thread, stop_converter, is_connected,
                       connection, procs, conns, orphans, loop, read_log, fed>>
        /\ UNCHANGED otherThanBridge

\* A handler that retries once more than max_retries allows.
RetryOnceMore(w) ==
    IF w.attempt < MaxRetries
    THEN [w EXCEPT !.attempt = @ + 1, !.slept = Append(@, w.retry_delay),
                   !.retry_delay = 2 * @]
    ELSE [w EXCEPT !.pc = "top", !.fut = "none", !.consecutive_timeouts = @ + 1]

\* except TimeoutError 306-335: sleep retry_delay, double it and go to the
\* next attempt; after the last attempt count the frame as failed.
on_send_timeout(w) ==
    IF w.attempt < MaxRetries - 1
    THEN [w EXCEPT !.attempt = @ + 1, !.slept = Append(@, w.retry_delay),
                   !.retry_delay = 2 * @]
    ELSE [w EXCEPT !.pc = "top", !.fut = "none", !.consecutive_timeouts = @ + 1]

\* 301, 306-335: future.result(timeout=5.0) raises TimeoutError; the coroutine
\* stays scheduled.  Before the last attempt the worker sleeps and schedules
\* the frame again; after it the frame is given up.
WorkerTimeout(t) ==
    LET w == workers[t]
    IN  /\ w.pc = "wait"
        /\ orphans' = Append(orphans, [frame |-> w.data, conn |-> w.conn])
        /\ workers' = [workers EXCEPT ![t] = on_send_timeout(w)]
        /\ UNCHANGED <<ffmpeg_process, converter_thread, stop_converter, is_connected,
                       connection, procs, conns, loop, delivered, read_log, fed>>
        /\ UNCHANGED otherThanBridge

\* A send coroutine nobody waits for any more completes on the loop.
OrphanRuns(i) ==
    /\ LoopFree
    /\ delivered' = IF conns[orphans[i].conn]
                    THEN Append(delivered, orphans[i].frame) ELSE delivered
    /\ orphans' = SubSeq(orphans, 1, i - 1) \o SubSeq(orphans, i + 1, Len(orphans))
    /\ UNCHANGED <<ffmpeg_process, converter_thread, stop_converter, is_connected,
                   connection, procs, workers, conns, loop, read_log, fed>>
    /\ UNCHANGED otherThanBridge

BridgeNext ==
    \/ SetupConnection
    \/ SetupStart
    \/ SetupDone
    \/ Disconnect
    \/ DisconnectCleaned
    \/ DisconnectClosed
    \/ Finish
    \/ SendAudio
    \/ \E p \in DOMAIN procs : Decode(p)
    \/ \E p \in DOMAIN procs : DecoderExit(p)
    \/ \E t \in DOMAIN workers : WorkerTop(t)
    \/ \E t \in DOMAIN workers : WorkerRead(t)
    \/ \E t \in DOMAIN workers : WorkerSent(t)
    \/ \E t \in DOMAIN workers : WorkerTimeout(t)
    \/ \E i \in DOMAIN orphans : OrphanRuns(i)

BridgeSpecInit ==
    /\ strategy = "hybrid"
    /\ qdrant = FALSE
    /\ answer_cache = <<>>
    /\ LLMPinned
    /\ SessInit
    /\ BridgeInit
    /\ PeersInit
    /\ probe = NoProbe

SpecBridge == BridgeSpecInit /\ [][BridgeNext]_vars

\* One bridge forwarding a longer recording over a connection whose sends
\* hang: a send that timed out does not complete later.
StreamAudio == SendAudioUpTo(MaxFeed)

\* websocket.py 497: the session sets its bridge up once.
StartBridge == loop.calls = 0 /\ SetupConnection

ForwardNext ==
    \/ StartBridge
    \/ SetupStart
    \/ SetupDone
    \/ StreamAudio
    \/ \E p \in DOMAIN procs : Decode(p)
    \/ \E t \in DOMAIN workers : WorkerTop(t)
    \/ \E t \in DOMAIN workers : WorkerRead(t)
    \/ \E t \in DOMAIN workers : WorkerSent(t)
    \/ \E t \in DOMAIN workers : WorkerTimeout(t)

SpecForward == BridgeSpecInit /\ [][ForwardNext]_vars

\* One session feeding audio: the bridge is set up once (websocket.py 497),
\* chunks and a finalize arrive, the decoder converts, ends after its input
\* was closed, or goes away under a write.
FeedNext ==
    \/ StartBridge
    \/ SetupStart
    \/ SetupDone
    \/ StreamAudio
    \/ Finish
    \/ \E p \in DOMAIN procs : Decode(p)
    \/ \E p \in DOMAIN procs : DecoderExit(p)

SpecFeed == BridgeSpecInit /\ [][FeedNext]_vars

SessionInit ==
    /\ strategy \in Strategies
    /\ qdrant \in BOOLEAN
    /\ answer_cache = <<>>
    /\ LLMPinned
    /\ SessInit
    /\ BridgeInit
    /\ PeersInit
    /\ probe = NoProbe

SpecSession == SessionInit /\ [][SessNext]_vars

\* The generator waits for the generation API: the streaming call of
\* claude.py 721-742, or the fallback's generate_answer (claude.py 1086).
\* Both use the synchronous client and set no timeout.
AwaitsGeneration(g) == g.pc \in {"api_stream", "fallback"}

\* A turn of the async for the code takes on its own: building the call and
\* the semantic search, which asyncio.timeout bounds (claude.py 352).
OnTranscriptStreamLocal(i) ==
    /\ ~AwaitsGeneration(GenOf(tasks[i]))
    /\ OnTranscriptStream(i)

\* The session under the event loop's scheduling: a task that can run is
\* run, a send of the callback returns.  Nothing makes the generation API
\* respond.
SessionFairness ==
    /\ WF_vars(\E i \in DOMAIN tasks : OnTranscriptDetect(i))
    /\ WF_vars(\E i \in DOMAIN tasks : OnTranscriptTemporary(i))
    /\ WF_vars(\E i \in DOMAIN tasks : OnTranscriptStreamStart(i))
    /\ WF_vars(\E i \in DOMAIN tasks : OnTranscriptStreamLocal(i))
    /\ WF_vars(\E i \in DOMAIN tasks : OnTranscriptAfterStream(i))
    /\ WF_vars(\E i \in DOMAIN tasks : OnTranscriptFinally(i))

SpecSessionLive == SessionInit /\ [][SessNext]_vars /\ SessionFairness

-----------------------------------------------------------------------------
(* SpecLLM: a caller iterating LLMService.generate_answer_stream.          *)
LLMInit ==
    /\ strategy \in Strategies
    /\ qdrant \in BOOLEAN
    /\ answer_cache = <<>>
    /\ gen = GenIdle
    /\ consumed = <<>>
    /\ requests = 0
    /\ SessInit
    /\ BridgeInit
    /\ PeersInit
    /\ probe = NoProbe

Take(o) ==
    /\ gen' = o.g
    /\ answer_cache' = o.cache
    /\ consumed' = IF o.yield = NoChunk THEN consumed ELSE Append(consumed, o.yield)
    /\ UNCHANGED <<strategy, qdrant, requests>>
    /\ UNCHANGED <<sessVars, bridgeVars, peerVars, probe>>

\* async for chunk in llm_service.generate_answer_stream(...)
LLMRequest ==
    /\ gen.pc \in {"idle", "done"}
    /\ requests < MaxRequests
    /\ \E qn \in Questions, profile \in BOOLEAN, bad \in BOOLEAN :
          gen' = GenStart(Request(qn, profile, bad, <<>>))
    /\ consumed' = <<>>
    /\ requests' = requests + 1
    /\ UNCHANGED <<strategy, qdrant, answer_cache>>
    /\ UNCHANGED <<sessVars, bridgeVars, peerVars, probe>>

LLMCallPrimary == \E o \in StepCallPrimary(gen, strategy, answer_cache) : Take(o)
LLMClaudeStreamBody ==
    \E o \in StepClaudeStreamBody(gen, strategy, qdrant, answer_cache) : Take(o)
LLMClaudeStreamChunk ==
    \E o \in StepClaudeStreamChunk(gen, ApiTexts, answer_cache) : Take(o)
LLMClaudeStreamEnd == \E o \in StepClaudeStreamEnd(gen, answer_cache) : Take(o)
LLMClaudeStreamError == \E o \in StepClaudeStreamError(gen, answer_cache) : Take(o)
LLMFallback == \E o \in StepFallback(gen, qdrant, ApiTexts, answer_cache) : Take(o)

LLMNext ==
    \/ LLMRequest
    \/ LLMCallPrimary
    \/ LLMClaudeStreamBody
    \/ LLMClaudeStreamChunk
    \/ LLMClaudeStreamEnd
    \/ LLMClaudeStreamError
    \/ LLMFallback

SpecLLM == LLMInit /\ [][LLMNext]_vars

-----------------------------------------------------------------------------
(* Two sessions.  websocket.py imports one claude_service and one           *)
(* deepgram_service; every websocket_transcribe call works on these two     *)
(* objects.  Session A's locals are the session variables, session B's are  *)
(* endpoints["B"].  Neither client sends audio here.                        *)
PeerAnswer == "I am a data scientist at Globex."
PeerItem == QAItem("qb1", QAboutYouPlain, <<>>, PeerAnswer)
PeerQAPairLists == {<<>>, <<PeerItem>>}
MaxHeard == 1

ownLocals ==
    <<accumulated_text, is_processing, user_id, user_profile, session_id, user_context,
      session_examples_used, store, socket, wire_order, tasks, main, counters>>

\* websocket.py 278-494 with create_connection 33-63: the callbacks of the
\* call are stored on the service, then the call waits for Deepgram.
OpenConnection(s) ==
    /\ endpoints[s].pc = "none"
    /\ callbacks' = s
    /\ endpoints' = [endpoints EXCEPT ![s].pc = "connecting"]
    /\ UNCHANGED <<handlers, llmVars, probe, sessVars, bridgeVars>>

\* websocket.py 497, setup_connection 113-114.
PeerSetupConnection(s) ==
    /\ endpoints[s].pc = "connecting"
    /\ SetupConnectionCore
    /\ endpoints' = [endpoints EXCEPT ![s].pc = "setup"]
    /\ UNCHANGED <<callbacks, handlers, llmVars, probe, sessVars>>

\* setup_connection 116-143: connection.on binds the callbacks the service
\* holds now; the decoder and the worker started belong to the call.
PeerSetupStart(s) ==
    /\ endpoints[s].pc = "setup"
    /\ SetupStartCore
    /\ handlers' = Append(handlers, callbacks)
    /\ endpoints' = [endpoints EXCEPT ![s].pc = "started",
                                      ![s].conn = Len(conns) + 1,
                                      ![s].proc = Len(procs) + 1,
                                      ![s].worker = Len(workers) + 1]
    /\ UNCHANGED <<callbacks, llmVars, probe, sessVars>>

\* setup_connection 144-145, websocket.py 498-505.
PeerSetupDone(s) ==
    /\ endpoints[s].pc = "started"
    /\ SetupDoneCore
    /\ endpoints' = [endpoints EXCEPT ![s].pc = "live",
                                      ![s].sent = Append(@, "transcription_ready")]
    /\ UNCHANGED <<callbacks, handlers, llmVars, probe, sessVars>>

\* deepgram_service.py 194-232: a MESSAGE or ERROR event of connection c runs
\* the handler bound to it, which schedules the callback it closed over.
DeepgramEvent(c) ==
    /\ conns[c]
    /\ \E s \in Sids : endpoints[s].conn = c /\ endpoints[s].pc = "live"
    /\ handlers[c] # "none"
    /\ Len(endpoints[handlers[c]].heard) < MaxHeard
    /\ endpoints' = [endpoints EXCEPT ![handlers[c]].heard = Append(@, c)]
    /\ UNCHANGED <<callbacks, handlers, llmVars, probe, sessVars, bridgeVars>>

\* Session A in its receive loop: "context" and "clear".
OwnContext == endpoints["A"].pc = "live" /\ RecvContext
OwnClear == endpoints["A"].pc = "live" /\ RecvClear

\* Session B's receive loop, "context" without user_id (websocket.py 553-605).
PeerContext ==
    /\ endpoints["B"].pc = "live"
    /\ endpoints["B"].events < MaxEvents
    /\ \E qa \in PeerQAPairLists :
          /\ qa_index' = IF qa # <<>> THEN build_qa_index(qa) ELSE qa_index
          /\ endpoints' = [endpoints EXCEPT !["B"].qa_pairs = qa,
                                            !["B"].sent = Append(@, "context_ack"),
                                            !["B"].events = @ + 1]
    /\ UNCHANGED <<callbacks, handlers, llmVars, probe, ownLocals, bridgeVars>>

\* Session B's receive loop, "clear" (websocket.py 607-626); B has no
\* session row.
PeerClear ==
    /\ endpoints["B"].pc = "live"
    /\ endpoints["B"].events < MaxEvents
    /\ answer_cache' = <<>>
    /\ qa_index' = build_qa_index(<<>>)
    /\ endpoints' = [endpoints EXCEPT !["B"].qa_pairs = <<>>,
                                      !["B"].sent = Append(@, "cleared"),
                                      !["B"].events = @ + 1]
    /\ UNCHANGED <<callbacks, handlers, strategy, qdrant, gen, consumed, requests, probe,
                   ownLocals, bridgeVars>>

\* websocket.py 510-520, 747-775 and the exit of `async with` (491): the
\* client went away; the session row is ended, the Deepgram connection of
\* the call is closed by its context manager, the manager forgets the socket.
ClientDisconnect(s) ==
    /\ endpoints[s].pc = "live"
    /\ loop.pc = "idle"
    /\ s = "A" => main.pc = "recv"
    /\ conns' = [conns EXCEPT ![endpoints[s].conn] = FALSE]
    /\ endpoints' = [endpoints EXCEPT ![s].pc = "closed"]
    /\ IF s = "A"
       THEN /\ store' = end_interview_session(store, session_id)
            /\ main' = Cycle("closed", main.cid)
       ELSE UNCHANGED <<store, main>>
    /\ UNCHANGED <<accumulated_text, is_processing, user_id, user_profile, session_id,
                   user_context, qa_index, session_examples_used, socket, wire_order,
                   tasks, counters>>
    /\ UNCHANGED <<ffmpeg_process, converter_thread, stop_converter, is_connected,
                   connection, procs, workers, orphans, loop, delivered, read_log, fed>>
    /\ UNCHANGED <<callbacks, handlers, llmVars, probe>>

PeersNext ==
    \/ \E s \in Sids : OpenConnection(s)
    \/ \E s \in Sids : PeerSetupConnection(s)
    \/ \E s \in Sids : PeerSetupStart(s)
    \/ \E s \in Sids : PeerSetupDone(s)
    \/ \E c \in DOMAIN conns : DeepgramEvent(c)
    \/ OwnContext
    \/ OwnClear
    \/ PeerContext
    \/ PeerClear
    \/ \E s \in Sids : ClientDisconnect(s)
    \/ \E t \in DOMAIN workers : WorkerTop(t)
    \/ \E t \in DOMAIN workers : WorkerRead(t)

SpecPeers == BridgeSpecInit /\ [][PeersNext]_vars

-----------------------------------------------------------------------------
(* The pure functions, each applied once to an argument drawn from a        *)
(* bounded set.                                                             *)
MaxItems == 2       \* Q&A pairs in an indexed list
MaxWords == 9       \* words of a text given to is_question_likely_complete

ItemLong == QAItem("qa3", QAboutYouLongPlain, <<>>, PlainText)
ItemDeadline == QAItem("qa4", QDeadline, <<NoText>>, AcmeText)
LookupItems == {ItemAboutYou, PeerItem, ItemLong, ItemDeadline}
LookupLists == UNION {[1..n -> LookupItems] : n \in 0..MaxItems}
LookupTexts == Questions \cup {QAboutYouPlain, QAboutYouLongPlain, NoText}

WordPool == <<"so", "what", "would", "you", "do", "if", "a", "teammate", "left", "early">>
CompleteTexts ==
    {NoText} \cup {Txt(SubSeq(WordPool, 1, n), TRUE, e) :
                       n \in 1..MaxWords, e \in {"", "?", ".", "!"}}

DecomposeTexts ==
    {NoText, QAboutYou,
     Txt(<<"introduce", "yourself", "and", "explain", "your", "fit">>, TRUE, "?"),
     Txt(<<"design", "and", "build", "but", "also", "test", "however", "ship",
           "and", "run">>, TRUE, "."),
     Txt(<<"and", "then">>, TRUE, "?"),
     Txt(<<"plan", "and", "and", "review">>, TRUE, "")}
ApiQueries ==
    {SubSeq(<<KeyAboutYou, KeyAboutYouLong, KeyDeadline, <<"why", "us">>>>, 1, n) :
         n \in 0..(MaxSubQuestions + 1)}

\* what one search_similar_qa_pairs(limit=3) call can return: distinct ids,
\* best first, none under the threshold 0.60
SearchHits ==
    {<<>>,
     <<Match("a", 90)>>,
     <<Match("a", 65), Match("b", 62)>>,
     <<Match("a", 95), Match("c", 70), Match("d", 61)>>,
     <<Match("e", 80), Match("f", 75), Match("g", 64)>>,
     <<Match("b", 93), Match("e", 62)>>}
SearchOutcomes ==
    {SearchOutcome("ok", hits) : hits \in SearchHits}
    \cup {SearchOutcome("timeout", <<>>), SearchOutcome("raised", <<>>)}
\* one outcome per sub-question
SearchRuns == UNION {[1..n -> SearchOutcomes] : n \in 0..MaxSubQuestions}

\* final transcripts given to detect_question_fast
DetectTexts ==
    Questions \cup CompleteTexts
    \cup {TSoundsGood, QAboutYouPlain, QAboutYouLongPlain,
          Txt(<<"ok">>, TRUE, ""), Txt(<<"yes">>, TRUE, "?"),
          Txt(<<"we", "ship", "every", "friday">>, TRUE, ".")}

\* normalized questions compared by calculate_similarity
SimilarityKeys == {<<>>, KeyAboutYou, KeyAboutYouLong, KeyDeadline}

Probes ==
    {Probe("detect", <<>>, t, "none", <<>>) : t \in DetectTexts}
    \cup {[Probe("similarity", <<>>, NoText, "none", <<>>) EXCEPT !.keys = <<a, b>>] :
         a \in SimilarityKeys, b \in SimilarityKeys}
    \cup {[Probe("search", <<>>, NoText, "none", <<>>) EXCEPT !.searches = run] :
         run \in SearchRuns}
    \cup {Probe("lookup", items, t, "none", <<>>) : items \in LookupLists, t \in LookupTexts}
    \cup {Probe("complete", <<>>, t, "none", <<>>) : t \in CompleteTexts}
    \cup {Probe("decompose", <<>>, t, "parsed", api) :
              t \in DecomposeTexts, api \in ApiQueries}
    \cup {Probe("decompose", <<>>, t, path, <<>>) :
              t \in DecomposeTexts, path \in {"timeout", "raised"}}

PureInit ==
    /\ strategy = "hybrid"
    /\ qdrant = FALSE
    /\ answer_cache = <<>>
    /\ LLMPinned
    /\ SessInit
    /\ BridgeInit
    /\ PeersInit
    /\ probe \in Probes

otherThanProbe == <<llmVars, sessVars, bridgeVars, peerVars>>

\* build_qa_index(items), then find_matching_qa_pair_fast(text)
ApplyLookup ==
    /\ probe.fn = "lookup" /\ ~probe.done
    /\ probe' = [probe EXCEPT
                    !.done = TRUE,
                    !.item = find_matching_qa_pair_fast(build_qa_index(probe.items),
                                                        probe.text),
                    !.via = LookupPath(build_qa_index(probe.items), probe.text)]
    /\ UNCHANGED otherThanProbe

ApplyComplete ==
    /\ probe.fn = "complete" /\ ~probe.done
    /\ probe' = [probe EXCEPT !.done = TRUE,
                              !.flag = is_question_likely_complete(probe.text)]
    /\ UNCHANGED otherThanProbe

ApplyDecompose ==
    /\ probe.fn = "decompose" /\ ~probe.done
    /\ probe' = [probe EXCEPT
                    !.done = TRUE,
                    !.subs = decompose_question(probe.text, probe.path, probe.api)]
    /\ UNCHANGED otherThanProbe

ApplySearch ==
    /\ probe.fn = "search" /\ ~probe.done
    /\ LET out == find_relevant_qa_pairs(probe.searches)
       IN  probe' = [probe EXCEPT !.done = TRUE, !.fused = out.matches,
                                  !.raised = out.raised]
    /\ UNCHANGED otherThanProbe

\* calculate_similarity(a, b) and calculate_similarity(b, a)
ApplySimilarity ==
    /\ probe.fn = "similarity" /\ ~probe.done
    /\ probe' = [probe EXCEPT
                    !.done = TRUE,
                    !.sims = <<calculate_similarity(probe.keys[1], probe.keys[2]),
                               calculate_similarity(probe.keys[2], probe.keys[1])>>]
    /\ UNCHANGED otherThanProbe

\* detect_question_fast(text), then the test of websocket.py 349
ApplyDetect ==
    /\ probe.fn = "detect" /\ ~probe.done
    /\ probe' = [probe EXCEPT
                    !.done = TRUE,
                    !.detection = detect_question_fast(probe.text),
                    !.stage2 = NeedsStage2(detect_question_fast(probe.text))]
    /\ UNCHANGED otherThanProbe

PureNext ==
    \/ ApplyLookup
    \/ ApplyComplete
    \/ ApplyDecompose
    \/ ApplySearch
    \/ ApplySimilarity
    \/ ApplyDetect

SpecPure == PureInit /\ [][PureNext]_vars

-----------------------------------------------------------------------------
ErrorChunksOf(chunks) == {i \in DOMAIN chunks : IsErrorChunk(chunks[i])}

-----------------------------------------------------------------------------
(* Properties of a session.                                                 *)
Cycles == {tasks[i] : i \in DOMAIN tasks} \cup {main}

\* a detection/answering cycle of on_transcript is between its question and
\* its finally clause
InCycle(c) == c.pc \in {"t_detected", "t_temp", "t_stream", "t_after", "t_end"}
\* the generate_answer branch is between its first and its last send
ManualInCycle == main.pc \in {"ga_lookup", "ga_stream", "ga_after", "ga_end"}

CyclesInProgress ==
    Cardinality({i \in DOMAIN tasks : InCycle(tasks[i])})
    + (IF ManualInCycle THEN 1 ELSE 0)

\* a sender's answer messages enclose another sender's
Interleaved(order) ==
    \E i, j, k \in DOMAIN order :
        i < j /\ j < k /\ order[i] = order[k] /\ order[j] # order[i]

(* C1: at every moment at most one detection/answering cycle is in          *)
(* progress, whether it was started by a final transcript or by a           *)
(* generate_answer message, and the answer messages of two cycles are never *)
(* interleaved on the socket.                                               *)
C1_OneCycleAtATime == CyclesInProgress <= 1 /\ ~Interleaved(wire_order)

TypesOf(log) == [k \in DOMAIN log |-> log[k].type]

PreparedSequence ==
    <<"transcription", "question_detected", "answer_temporary", "answer">>

(* C4: once a context with a prepared item is loaded, a final transcript    *)
(* whose text is that item's question ("Tell me about yourself?"), handled  *)
(* while no other cycle runs, makes the session send exactly transcription, *)
(* question_detected, answer_temporary and the direct answer, and none of   *)
(* the answer_stream messages.                                              *)
C4_PreparedAnswerSequence ==
    \A i \in DOMAIN tasks :
        (tasks[i].pc = "done" /\ tasks[i].prepared /\ Open) =>
            TypesOf(socket[tasks[i].cid]) = PreparedSequence

IsStreamType(t) ==
    t \in {"answer_stream_start", "answer_stream_chunk", "answer_stream_end"}

StreamTypes(cid) == SelectSeq(TypesOf(socket[cid]), IsStreamType)

\* the coroutine that sent under cid has left its cycle
CycleOver(cid) ==
    /\ \A i \in DOMAIN tasks : tasks[i].cid = cid => tasks[i].pc = "done"
    /\ main.cid = cid => main.pc = "closed"

\* answer_stream_start, one or more chunks, one answer_stream_end
WellFormedStream(ts) ==
    /\ Len(ts) >= 3
    /\ ts[1] = "answer_stream_start"
    /\ ts[Len(ts)] = "answer_stream_end"
    /\ \A k \in 2..(Len(ts) - 1) : ts[k] = "answer_stream_chunk"

(* C5: a cycle that announced a streamed answer (a complete question with   *)
(* no prepared answer) has sent, when it is over, answer_stream_start, at   *)
(* least one answer_stream_chunk and exactly one answer_stream_end,         *)
(* whatever the generation backends did.                                    *)
C5_StreamAlwaysTerminated ==
    \A cid \in DOMAIN socket :
        ( /\ \E k \in DOMAIN socket[cid] : socket[cid][k].type = "answer_stream_start"
          /\ CycleOver(cid)
          /\ Open \/ main.cid = cid ) =>
            WellFormedStream(StreamTypes(cid))

\* the cycle has run the code that follows its stream
PostExtract(c) == c.pc \in {"t_end", "ga_end"} /\ c.gen.pc = "done"

(* C6: when the generation was a direct retrieval (best similarity at least *)
(* 0.62), the stored answer is the single chunk of the turn and the turn    *)
(* adds nothing to the usage memory.                                        *)
C6_DirectRetrievalLeavesMemory ==
    \A c \in Cycles :
        (PostExtract(c) /\ c.gen.retrieved) =>
            /\ c.generated_answer = <<StoredAnswer>>
            /\ c.new_examples = <<>>

\* a synthesized answer that completed: no retrieval, no error chunk
Synthesized(c) ==
    /\ PostExtract(c)
    /\ ~c.gen.retrieved
    /\ \A k \in DOMAIN c.generated_answer :
          c.generated_answer[k] \notin {LLMErrorText, ClaudeErrorText}

(* C7: when a synthesized answer completes, every extractable example of    *)
(* its text that the usage memory did not hold is appended to the usage     *)
(* memory, and every generation request carries the usage memory of its     *)
(* time as its do-not-repeat list; in every state that context updates and  *)
(* clear can reach.                                                         *)
C7_UsageEventAppended ==
    \A c \in Cycles :
        /\ Synthesized(c) =>
              \A e \in SeqToSet(ExamplesOf(c.generated_answer))
                            \ SeqToSet(c.used_before) :
                  c.saved /\ e \in SeqToSet(c.new_examples)
        /\ c.pc \in {"t_stream", "t_after", "t_end", "ga_stream", "ga_after", "ga_end"} =>
              SeqToSet(c.used_at_start) \subseteq SeqToSet(c.session_examples)

-----------------------------------------------------------------------------
(* Properties of the transcoder bridge.                                     *)

(* C8: whenever the bridge is between calls, after whatever starts and      *)
(* stops, at most one decoder process and at most one converter worker are  *)
(* alive, and every frame was read by the worker started together with the  *)
(* decoder that produced it.                                                *)
C8_SingleDecoderAndWorker ==
    /\ loop.pc = "idle" =>
          Cardinality(AliveProcs) <= 1 /\ Cardinality(AliveWorkers) <= 1
    /\ \A k \in DOMAIN read_log : read_log[k].born = read_log[k].pid

\* _cleanup_ffmpeg has returned inside disconnect, or disconnect has returned
\* and nothing was called since
TeardownReturned ==
    loop.pc = "disc_closing" \/ (loop.pc = "idle" /\ loop.last = "disconnect")

(* C9: when a teardown returns, whether it follows a start, another         *)
(* teardown or nothing at all, no decoder process and no converter worker   *)
(* the bridge started is still alive.                                       *)
C9_TeardownLeavesNothing ==
    TeardownReturned => AliveProcs = {} /\ AliveWorkers = {}

ReadFrames == [k \in DOMAIN read_log |-> read_log[k].frame]

(* C10: the frames delivered to the transcription backend are the frames    *)
(* read from the decoder, each once and in the order read: what is          *)
(* delivered is always a prefix of what was read, and it is all of it       *)
(* whenever no worker is waiting for a send.                                *)
C10_ExactlyOnceInOrder ==
    /\ IsPrefix(delivered, ReadFrames)
    /\ (\A t \in DOMAIN workers : workers[t].pc # "wait") => delivered = ReadFrames


-----------------------------------------------------------------------------
(* Properties of a bridge forwarding over a failing connection.             *)
ErrorSent == \E cid \in DOMAIN socket : \E k \in DOMAIN socket[cid] :
                 socket[cid][k].type = "error"

FullyFailedFive(w) == w.consecutive_timeouts >= MaxConsecutiveTimeouts

(* C11: once 5 consecutive frames have each failed all of their forward     *)
(* attempts, the worker forwards nothing further (it is at its loop test or *)
(* has ended) and, when it has ended, the session's socket carries an       *)
(* error message.                                                           *)
C11_FiveFailuresStopAndNotify ==
    \A t \in DOMAIN workers :
        FullyFailedFive(workers[t]) =>
            /\ workers[t].pc \in {"top", "exit"}
            /\ workers[t].pc = "exit" => ErrorSent

-----------------------------------------------------------------------------
(* Properties of two concurrent sessions.                                   *)
LookupsOf(d) == [q \in Questions |-> find_matching_qa_pair_fast(d, q)]

(* C12: while session A is live, no context or clear message processed by   *)
(* session B changes the result of any Knowledge Index lookup made for A.   *)
C12_PeerLeavesLookupsAlone ==
    [][(endpoints["A"].pc = "live" /\ (PeerContext \/ PeerClear)) =>
           LookupsOf(qa_index') = LookupsOf(qa_index)]_vars

\* what a live session relies on: the decoder and the worker its own
\* setup_connection started run, and the service forwards on its connection
OwnBridgeIntact(s) ==
    /\ procs[endpoints[s].proc].alive
    /\ workers[endpoints[s].worker].pc # "exit"
    /\ loop.pc = "idle" => connection = endpoints[s].conn

\* every event that reached the session's callbacks came from its connection
HeardOwnEvents(s) ==
    \A k \in DOMAIN endpoints[s].heard : endpoints[s].heard[k] = endpoints[s].conn

(* C13: a live session keeps its decoder, its worker and its backend        *)
(* connection whatever another session does, and the events delivered to a  *)
(* session's callbacks are those of its own connection.                     *)
C13_SessionsIndependent ==
    \A s \in Sids :
        /\ endpoints[s].pc = "live" => OwnBridgeIntact(s)
        /\ HeardOwnEvents(s)

\* something the session's setup_connection started is still running
BridgeAlive(s) ==
    \/ endpoints[s].proc # 0 /\ procs[endpoints[s].proc].alive
    \/ endpoints[s].worker # 0 /\ workers[endpoints[s].worker].pc # "exit"

(* C14: when a session's client has disconnected, and when a session has    *)
(* processed a clear message, no decoder process and no worker thread of    *)
(* that session is alive.                                                   *)
C14_NothingAliveAfterDisconnectOrClear ==
    [][/\ OwnClear => ~BridgeAlive("A")'
       /\ \A s \in Sids : ClientDisconnect(s) => ~BridgeAlive(s)']_vars

-----------------------------------------------------------------------------
(* Properties of finalize.                                                  *)
\* the decoder the service holds has had its input closed by finish() and
\* still holds audio to convert or frames to be read
FinalizedWithPending ==
    /\ ffmpeg_process # 0
    /\ ~procs[ffmpeg_process].stdin_open
    /\ procs[ffmpeg_process].inbuf > 0 \/ procs[ffmpeg_process].stdout # <<>>

(* C15: after a finalize, the backend connection stays open while the       *)
(* decoder still has audio fed before the finalize to convert or decoded    *)
(* frames to hand over.                                                     *)
C15_FinalizeFlushesPending ==
    FinalizedWithPending => connection # 0 /\ conns[connection]

-----------------------------------------------------------------------------
(* Properties of the control messages of one session.                       *)
LastSent(log, type) == log # <<>> /\ log[Len(log)].type = type

C17_InvalidFrameReported ==
    [][\A f \in InvalidFrames :
          RecvInvalid(f) =>
              /\ Len(socket'[0]) = Len(socket[0]) + 1
              /\ LastSent(socket'[0], "error")
              /\ UNCHANGED <<accumulated_text, is_processing, user_id, user_profile,
                             session_id, user_context, qa_index, session_examples_used,
                             store>>
              /\ main'.pc = "recv"]_vars


-----------------------------------------------------------------------------
\* the keys build_qa_index files an item under
KeysOf(it) ==
    {normalize_question(it.question)}
    \cup {normalize_question(it.variations[j]) :
              j \in {n \in DOMAIN it.variations : it.variations[n].words # <<>>}}

Carriers(items, k) == {i \in DOMAIN items : k \in KeysOf(items[i])}

LastCarrier(items, k) ==
    CHOOSE i \in Carriers(items, k) : \A j \in Carriers(items, k) : j <= i

LookupDone == probe.fn = "lookup" /\ probe.done

(* C18 as stated: for every indexed list and every main question or         *)
(* non-blank variation of an item of the list, a lookup with a text that    *)
(* normalizes to the same key returns that very item.                       *)
C18_ExactHitReturnsThatItem ==
    LookupDone =>
        \A i \in DOMAIN probe.items :
            normalize_question(probe.text) \in KeysOf(probe.items[i]) =>
                probe.item = probe.items[i]

(* C18, amended: for every indexed list and every main question or          *)
(* non-blank variation of an item of the list, a lookup with a text that    *)
(* normalizes to the same key is answered by the exact step, whatever the   *)
(* similarity scores, and returns the last item of the list filed under     *)
(* that key (the item itself when no later item shares the key).            *)
C18_ExactHitReturnsLastCarrier ==
    LookupDone /\ Carriers(probe.items, normalize_question(probe.text)) # {} =>
        /\ probe.via = "exact"
        /\ probe.item =
               probe.items[LastCarrier(probe.items, normalize_question(probe.text))]

\* a lookup of the longer question in an index whose first key is contained
\* in it (similarity 0.95, the early exit) and belongs to another item
C18_Witness ==
    /\ LookupDone
    /\ probe.items = <<PeerItem, ItemLong>>
    /\ probe.text = QAboutYouLong
    /\ probe.item = ItemLong
    /\ calculate_similarity(normalize_question(probe.text),
                            normalize_question(PeerItem.question)) >= EarlyExitPct


-----------------------------------------------------------------------------
CompleteDone == probe.fn = "complete" /\ probe.done

(* C19: is_question_likely_complete(text) is true exactly when the trimmed  *)
(* text ends in '?', or has at least eight words, or ends in '.', '!' or    *)
(* '?' and has at least five words; so a short text ending in '?' is        *)
(* complete and a text of under five words without punctuation is not.      *)
C19_CompleteExactlyWhen ==
    CompleteDone =>
        (probe.flag <=>
            \/ probe.text.end = "?"
            \/ Len(probe.text.words) >= LongTextWords
            \/ /\ probe.text.end \in {"?", ".", "!"}
               /\ Len(probe.text.words) >= MinCompleteWords)

(* C20: decompose_question returns at least one and at most three           *)
(* sub-questions, whether the structured-output call returned, timed out    *)
(* or raised.                                                               *)
C20_OneToThreeSubQuestions ==
    probe.fn = "decompose" /\ probe.done =>
        Len(probe.subs) \in 1..MaxSubQuestions


-----------------------------------------------------------------------------
SearchDone == probe.fn = "search" /\ probe.done

\* the matches the searches that answered reported, in order
Reported(run) ==
    Flatten([i \in DOMAIN run |->
                IF run[i].status = "ok" THEN run[i].matches ELSE <<>>])

ResultBounded ==
    /\ Len(probe.fused) <= MaxTotalResults
    /\ \A i, j \in DOMAIN probe.fused : i # j => probe.fused[i].id # probe.fused[j].id
    /\ \A i, j \in DOMAIN probe.fused :
           i < j => probe.fused[i].similarity >= probe.fused[j].similarity

(* C21: find_relevant_qa_pairs returns at most five candidates with         *)
(* pairwise distinct ids, in order of non-increasing similarity, and each   *)
(* returned candidate carries the highest similarity any sub-search         *)
(* reported for its item.                                                   *)
C21_TopFiveDistinctSortedHighest ==
    SearchDone =>
        /\ ResultBounded
        /\ \A k \in DOMAIN probe.fused :
               \A n \in DOMAIN Reported(probe.searches) :
                   Reported(probe.searches)[n].id = probe.fused[k].id =>
                       probe.fused[k].similarity >= Reported(probe.searches)[n].similarity


-----------------------------------------------------------------------------
\* the results of the sub-searches that neither failed nor timed out
Remaining(run) ==
    LET ok == SelectSeq(run, LAMBDA o : o.status = "ok")
    IN  [i \in DOMAIN ok |-> ok[i].matches]

(* C28: whichever of the parallel sub-searches fail or time out,            *)
(* find_relevant_qa_pairs raises nothing and returns the fused candidates   *)
(* of the remaining sub-searches; a failed one contributes no candidate.    *)
C28_FailedSearchContributesNothing ==
    SearchDone =>
        /\ ~probe.raised
        /\ probe.fused = FuseMatches(Remaining(probe.searches))

\* one sub-search timed out, one raised, and the third's hits are returned
C28_Witness ==
    /\ SearchDone
    /\ \E i, j, k \in DOMAIN probe.searches :
           /\ probe.searches[i].status = "timeout"
           /\ probe.searches[j].status = "raised"
           /\ probe.searches[k].status = "ok"
           /\ probe.searches[k].matches # <<>>
    /\ probe.fused # <<>>


-----------------------------------------------------------------------------
NoDecoderInput ==
    \/ ffmpeg_process = 0
    \/ ~procs[ffmpeg_process].alive
    \/ ~procs[ffmpeg_process].stdin_open

(* C22: send_audio returns False and raises nothing whenever the decoder    *)
(* was never started, has exited, or its input pipe is closed or breaks     *)
(* under the write; it returns True only after the whole chunk was written  *)
(* to the decoder's input.                                                  *)
C22_SendAudioFailsQuietly ==
    [][StreamAudio =>
          /\ loop'.ret \in {"true", "false"}
          /\ NoDecoderInput => loop'.ret = "false"
          /\ (~NoDecoderInput /\ ~procs'[ffmpeg_process].alive) => loop'.ret = "false"
          /\ loop'.ret = "true" =>
                 /\ ~NoDecoderInput
                 /\ procs'[ffmpeg_process].inbuf = procs[ffmpeg_process].inbuf + 1]_vars

\* a chunk was written and converted, then the input was closed by finalize
\* and the next chunk was refused
C22_Witness ==
    /\ loop.last = "send_audio"
    /\ loop.ret = "false"
    /\ fed.audio = 2
    /\ fed.frames = 1
    /\ ffmpeg_process # 0
    /\ ~procs[ffmpeg_process].stdin_open


-----------------------------------------------------------------------------
(* C23: calculate_similarity is symmetric: for all normalized strings a and *)
(* b the two orders of the arguments give the same score.                   *)
C23_SimilaritySymmetric ==
    probe.fn = "similarity" /\ probe.done => probe.sims[1] = probe.sims[2]


-----------------------------------------------------------------------------
\* the worker t moved on to another attempt for its frame
NextAttempt(t) ==
    /\ workers[t].pc = "wait" /\ workers'[t].pc = "wait"
    /\ workers'[t].attempt # workers[t].attempt

\* the worker t gave its frame up
GaveUp(t) ==
    /\ workers[t].pc = "wait" /\ workers'[t].pc = "top"
    /\ orphans' # orphans

RetriesBounded ==
    \A t \in DOMAIN workers :
        workers[t].pc = "wait" =>
            /\ workers[t].attempt < MaxRetries
            /\ Len(workers[t].slept) = workers[t].attempt
            /\ \A k \in DOMAIN workers[t].slept :
                   workers[t].slept[k] =
                       IF k = 1 THEN RetryDelayMs ELSE 2 * workers[t].slept[k - 1]

RetryStepsRight ==
    \A t \in DOMAIN workers :
        /\ NextAttempt(t) =>
               /\ WorkerTimeout(t)
               /\ workers'[t].attempt = workers[t].attempt + 1
               /\ workers'[t].consecutive_timeouts = workers[t].consecutive_timeouts
        /\ GaveUp(t) =>
               /\ workers[t].attempt = MaxRetries - 1
               /\ workers'[t].consecutive_timeouts = workers[t].consecutive_timeouts + 1
        /\ (WorkerTimeout(t) /\ workers[t].attempt < MaxRetries - 1) =>
               workers'[t].consecutive_timeouts = workers[t].consecutive_timeouts
        /\ (WorkerSent(t) /\ conns[workers[t].conn]) =>
               workers'[t].consecutive_timeouts = 0

(* C25: for each decoded frame the worker makes at most three send          *)
(* attempts, starts a new attempt only after the previous one timed out,    *)
(* and doubles the wait between attempts; the consecutive-failure counter   *)
(* goes up by exactly one for each frame whose three attempts all timed out *)
(* and is reset to 0 by a successful send.                                  *)
C25_RetriesAndCounter ==
    [][RetriesBounded' /\ RetryStepsRight]_vars

\* the second frame in a row given up after three attempts and waits of
\* 100 and 200 ms
C25_Witness ==
    \E t \in DOMAIN workers :
        /\ workers[t].pc = "top"
        /\ workers[t].consecutive_timeouts = 2
        /\ workers[t].attempt = MaxRetries - 1
        /\ workers[t].slept = <<RetryDelayMs, 2 * RetryDelayMs>>


-----------------------------------------------------------------------------
\* the entries an index holds, and the entries a list of items gives
EntriesOf(d) == {<<d[i].key, d[i].item>> : i \in DOMAIN d}

DerivedEntries(items) ==
    {<<k, items[LastCarrier(items, k)]>> :
         k \in UNION {KeysOf(items[i]) : i \in DOMAIN items}}

(* C26: after each context message is processed the Knowledge Index holds   *)
(* exactly the entries derived from that message's qa_pairs (normalized     *)
(* main questions and non-blank variations) and nothing of an earlier       *)
(* context, for every qa_pairs list, the empty one included.                *)
C26_ContextRebuildsIndex ==
    [][RecvContext => EntriesOf(qa_index') = DerivedEntries(user_context'.qa_pairs)]_vars


-----------------------------------------------------------------------------
(* C27: when the orchestrator falls back, the secondary backend receives    *)
(* the request the orchestrator was given: question, candidate context,     *)
(* prepared Q&A, answer format, session history and the list of examples    *)
(* used before.                                                             *)
C27_FallbackGetsSameRequest ==
    gen.sec_calls > 0 => gen.sec_args = RequestParams


-----------------------------------------------------------------------------
DetectDone == probe.fn = "detect" /\ probe.done

-----------------------------------------------------------------------------
\* the on_transcript call i passes the gate of line 337: a detection pass
PassStarts(i) == OnTranscriptDetect(i) /\ tasks[i].final /\ ~is_processing

(* C29: each detection pass classifies the text of the final transcript     *)
(* event that started it: between that event storing its text as the        *)
(* accumulated transcript and the pass reading it, no other transcript      *)
(* event of the session replaces the text.                                  *)
C29_PassReadsOwnText ==
    [][\A i \in DOMAIN tasks : PassStarts(i) => accumulated_text = tasks[i].text]_vars


=============================================================================
